---------------------------- MODULE Spec2Model ----------------------------
(***************************************************************************)
(* A model of the Jira -> Lark daily report program: the configuration     *)
(* loader (config.py), the retrying tracker and messaging clients          *)
(* (jira_client.py, lark_client.py), the text formatter (formatter.py),    *)
(* the interactive card builder (card_main.py), the report orchestrator    *)
(* run_once (main.py), the scheduler driver (scheduler.py) and the         *)
(* diagnostics tool (dump_jira.py).                                        *)
(*                                                                         *)
(* Strings that the program converts (strip, lower, upper, int, regex) are *)
(* sequences of one-character strings, so that the conversions are         *)
(* computed and not assumed.  JSON values are tagged records:              *)
(*   [t |-> "none"], [t |-> "str", v |-> chars], [t |-> "time", v |-> ts], *)
(*   [t |-> "list", v |-> seq], and for an object                          *)
(*   [t |-> "dict", v |-> function from keys, keys |-> insertion order].   *)
(* A string that has the shape of a timestamp is held as "time".  JSON     *)
(* numbers and booleans are not among the values: where the program asks   *)
(* for len(), a slice or .get of a value, null, a string and an object     *)
(* stand for the values that are no list.  A name that was not assigned    *)
(* yet holds [t |-> "unbound"].                                            *)
(*                                                                         *)
(* Characters follow the Unicode database of the interpreter (14.0); the   *)
(* time zone names are those of the tz database 2023c; the cron            *)
(* expression is read as APScheduler 3 reads it.                           *)
(***************************************************************************)
EXTENDS Integers, Sequences, FiniteSets, TLC

VARIABLES
    env,       \* os.environ: a function from the variable names that are set
    entry,     \* the entry point that was started
    pc,        \* position of the process inside its entry point
    config,    \* the Config record load_config returned (NoConfig before)
    jira,      \* the JiraClient that was constructed (NoClient before)
    issues,    \* what search_issues returned to its caller (Unbound before)
    fields_meta, \* what list_fields returned to run_dump (Unbound before)
    call,      \* the retry loop in progress (search_issues, list_fields, _post)
    net,       \* HTTP requests made in this invocation: [jira |-> n, lark |-> n]
    sends,     \* LarkClient send operations invoked in this invocation
    mention,   \* what the mention pass of this invocation computed
    log,       \* log records of this invocation
    outcome,   \* how the invocation ended
    escaped,   \* the exception that left the entry point or job ("" for none)
    runs,      \* run_once invocations the scheduler has finished
    handlers,  \* handlers attached to the process-wide root logger
    inp,       \* the arguments of a pure function under check
    out        \* its result

vars == <<env, entry, pc, config, jira, issues, fields_meta, call, net, sends,
          mention, log, outcome, escaped, runs, handlers, inp, out>>

-----------------------------------------------------------------------------
(* Bounds of the model *)

\* run_once invocations the scheduler triggers
MaxRuns == 2
\* issues in a tracker response
MaxIssues == 2
\* largest `retries` argument of a retry loop checked on its own
MaxRetries == 4
\* issues handed to build_interactive_card
MaxCardIssues == 3
\* largest show_limit handed to build_interactive_card
MaxShow == 4
\* show_limit values below zero: -MaxNegShow .. -1
MaxNegShow == 2
\* issues handed to format_text_report
MaxTextIssues == 12

Min(a, b) == IF a < b THEN a ELSE b
Max(a, b) == IF a > b THEN a ELSE b

-----------------------------------------------------------------------------
(* Character strings *)

UpperChars == <<"A","B","C","D","E","F","G","H","I","J","K","L","M",
                "N","O","P","Q","R","S","T","U","V","W","X","Y","Z">>
LowerChars == <<"a","b","c","d","e","f","g","h","i","j","k","l","m",
                "n","o","p","q","r","s","t","u","v","w","x","y","z">>
DigitChars == <<"0","1","2","3","4","5","6","7","8","9">>

InSeq(c, s) == \E i \in 1..Len(s) : s[i] = c
IndexOf(c, s) == CHOOSE i \in 1..Len(s) : s[i] = c

\* A character is held as itself when it is a printable ASCII character other
\* than the grave accent, or one of tab, line feed, form feed and carriage
\* return; every other character is held as the token of its code point:
\* "U+", then its upper-case hexadecimal digits, four at least ("U+672A",
\* "U+001F", "U+0060", "U+1F600").  CharsOf gives the characters a token is
\* written with.
HexChars == DigitChars \o <<"A","B","C","D","E","F">>
CharsOf(tok) == [i \in 1..Len(tok) |-> SubSeq(tok, i, i)]
RECURSIVE HexValue(_)
HexValue(s) ==
    IF s = <<>> THEN 0
    ELSE 16 * HexValue(SubSeq(s, 1, Len(s) - 1)) + (IndexOf(s[Len(s)], HexChars) - 1)
IsCodePoint(c) ==
    /\ Len(c) \in 6..8
    /\ SubSeq(c, 1, 2) = "U+"
    /\ \A i \in 3..Len(c) : InSeq(SubSeq(c, i, i), HexChars)
CodePoint(c) == HexValue(SubSeq(CharsOf(c), 3, Len(c)))

\* the printable ASCII characters in code point order: space (32) to
\* underscore (95), and a (97) to tilde (126); the grave accent (96) is held
\* as its token "U+0060"
AsciiLow ==
    <<" ","!","\"","#","$","%","&","'","(",")","*","+",",","-",".","/">> \o DigitChars \o
    <<":",";","<","=",">","?","@">> \o UpperChars \o <<"[","\\","]","^","_">>
AsciiHigh == LowerChars \o <<"{","|","}","~">>

\* ord(c); a character that is neither ASCII nor a code point token is put
\* after the largest code point
Ord(c) ==
    CASE c = "\t" -> 9
      [] c = "\n" -> 10
      [] c = "\f" -> 12
      [] c = "\r" -> 13
      [] InSeq(c, AsciiLow) -> 31 + IndexOf(c, AsciiLow)
      [] InSeq(c, AsciiHigh) -> 96 + IndexOf(c, AsciiHigh)
      [] IsCodePoint(c) -> CodePoint(c)
      [] OTHER -> 1114112

\* chr(n), in the form a character is held in
RECURSIVE HexText(_, _)
HexText(n, width) ==
    IF width = 0 THEN "" ELSE HexText(n \div 16, width - 1) \o HexChars[(n % 16) + 1]
TokenWidth(n) == IF n < 65536 THEN 4 ELSE IF n < 1048576 THEN 5 ELSE 6
CharOf(n) ==
    CASE n = 9  -> "\t"
      [] n = 10 -> "\n"
      [] n = 12 -> "\f"
      [] n = 13 -> "\r"
      [] n \in 32..95  -> AsciiLow[n - 31]
      [] n \in 97..126 -> AsciiHigh[n - 96]
      [] OTHER -> "U+" \o HexText(n, TokenWidth(n))

\* The tables of the Unicode database the interpreter is built with (14.0).
\* A table of ranges is written lo, hi, lo, hi, ... in ascending order.
InRanges(n, table) ==
    \E i \in 1..(Len(table) \div 2) : table[2 * i - 1] <= n /\ n <= table[2 * i]

\* the code points str.strip, str.split and str.isspace take as whitespace
StripSpaces ==
    (9..13) \cup (28..32) \cup {133, 160, 5760} \cup (8192..8202)
    \cup {8232, 8233, 8239, 8287, 12288}
\* the code points int() takes as whitespace around a literal: the same
\* without the separators 28..31
IntSpaces == StripSpaces \ (28..31)

\* the code points \w of the re module matches on a str pattern: the
\* alphanumeric characters and the underscore
WordRanges ==
    <<48,57,65,90,95,95,97,122,170,170,178,179,181,181,185,186,188,190,192,214,216,246,248,705,710,
      721,736,740,748,748,750,750,880,884,886,887,890,893,895,895,902,902,904,906,908,908,910,929,
      931,1013,1015,1153,1162,1327,1329,1366,1369,1369,1376,1416,1488,1514,1519,1522,1568,1610,1632,
      1641,1646,1647,1649,1747,1749,1749,1765,1766,1774,1788,1791,1791,1808,1808,1810,1839,1869,
      1957,1969,1969,1984,2026,2036,2037,2042,2042,2048,2069,2074,2074,2084,2084,2088,2088,2112,
      2136,2144,2154,2160,2183,2185,2190,2208,2249,2308,2361,2365,2365,2384,2384,2392,2401,2406,
      2415,2417,2432,2437,2444,2447,2448,2451,2472,2474,2480,2482,2482,2486,2489,2493,2493,2510,
      2510,2524,2525,2527,2529,2534,2545,2548,2553,2556,2556,2565,2570,2575,2576,2579,2600,2602,
      2608,2610,2611,2613,2614,2616,2617,2649,2652,2654,2654,2662,2671,2674,2676,2693,2701,2703,
      2705,2707,2728,2730,2736,2738,2739,2741,2745,2749,2749,2768,2768,2784,2785,2790,2799,2809,
      2809,2821,2828,2831,2832,2835,2856,2858,2864,2866,2867,2869,2873,2877,2877,2908,2909,2911,
      2913,2918,2927,2929,2935,2947,2947,2949,2954,2958,2960,2962,2965,2969,2970,2972,2972,2974,
      2975,2979,2980,2984,2986,2990,3001,3024,3024,3046,3058,3077,3084,3086,3088,3090,3112,3114,
      3129,3133,3133,3160,3162,3165,3165,3168,3169,3174,3183,3192,3198,3200,3200,3205,3212,3214,
      3216,3218,3240,3242,3251,3253,3257,3261,3261,3293,3294,3296,3297,3302,3311,3313,3314,3332,
      3340,3342,3344,3346,3386,3389,3389,3406,3406,3412,3414,3416,3425,3430,3448,3450,3455,3461,
      3478,3482,3505,3507,3515,3517,3517,3520,3526,3558,3567,3585,3632,3634,3635,3648,3654,3664,
      3673,3713,3714,3716,3716,3718,3722,3724,3747,3749,3749,3751,3760,3762,3763,3773,3773,3776,
      3780,3782,3782,3792,3801,3804,3807,3840,3840,3872,3891,3904,3911,3913,3948,3976,3980,4096,
      4138,4159,4169,4176,4181,4186,4189,4193,4193,4197,4198,4206,4208,4213,4225,4238,4238,4240,
      4249,4256,4293,4295,4295,4301,4301,4304,4346,4348,4680,4682,4685,4688,4694,4696,4696,4698,
      4701,4704,4744,4746,4749,4752,4784,4786,4789,4792,4798,4800,4800,4802,4805,4808,4822,4824,
      4880,4882,4885,4888,4954,4969,4988,4992,5007,5024,5109,5112,5117,5121,5740,5743,5759,5761,
      5786,5792,5866,5870,5880,5888,5905,5919,5937,5952,5969,5984,5996,5998,6000,6016,6067,6103,
      6103,6108,6108,6112,6121,6128,6137,6160,6169,6176,6264,6272,6276,6279,6312,6314,6314,6320,
      6389,6400,6430,6470,6509,6512,6516,6528,6571,6576,6601,6608,6618,6656,6678,6688,6740,6784,
      6793,6800,6809,6823,6823,6917,6963,6981,6988,6992,7001,7043,7072,7086,7141,7168,7203,7232,
      7241,7245,7293,7296,7304,7312,7354,7357,7359,7401,7404,7406,7411,7413,7414,7418,7418,7424,
      7615,7680,7957,7960,7965,7968,8005,8008,8013,8016,8023,8025,8025,8027,8027,8029,8029,8031,
      8061,8064,8116,8118,8124,8126,8126,8130,8132,8134,8140,8144,8147,8150,8155,8160,8172,8178,
      8180,8182,8188,8304,8305,8308,8313,8319,8329,8336,8348,8450,8450,8455,8455,8458,8467,8469,
      8469,8473,8477,8484,8484,8486,8486,8488,8488,8490,8493,8495,8505,8508,8511,8517,8521,8526,
      8526,8528,8585,9312,9371,9450,9471,10102,10131,11264,11492,11499,11502,11506,11507,11517,
      11517,11520,11557,11559,11559,11565,11565,11568,11623,11631,11631,11648,11670,11680,11686,
      11688,11694,11696,11702,11704,11710,11712,11718,11720,11726,11728,11734,11736,11742,11823,
      11823,12293,12295,12321,12329,12337,12341,12344,12348,12353,12438,12445,12447,12449,12538,
      12540,12543,12549,12591,12593,12686,12690,12693,12704,12735,12784,12799,12832,12841,12872,
      12879,12881,12895,12928,12937,12977,12991,13312,19903,19968,42124,42192,42237,42240,42508,
      42512,42539,42560,42606,42623,42653,42656,42735,42775,42783,42786,42888,42891,42954,42960,
      42961,42963,42963,42965,42969,42994,43009,43011,43013,43015,43018,43020,43042,43056,43061,
      43072,43123,43138,43187,43216,43225,43250,43255,43259,43259,43261,43262,43264,43301,43312,
      43334,43360,43388,43396,43442,43471,43481,43488,43492,43494,43518,43520,43560,43584,43586,
      43588,43595,43600,43609,43616,43638,43642,43642,43646,43695,43697,43697,43701,43702,43705,
      43709,43712,43712,43714,43714,43739,43741,43744,43754,43762,43764,43777,43782,43785,43790,
      43793,43798,43808,43814,43816,43822,43824,43866,43868,43881,43888,44002,44016,44025,44032,
      55203,55216,55238,55243,55291,63744,64109,64112,64217,64256,64262,64275,64279,64285,64285,
      64287,64296,64298,64310,64312,64316,64318,64318,64320,64321,64323,64324,64326,64433,64467,
      64829,64848,64911,64914,64967,65008,65019,65136,65140,65142,65276,65296,65305,65313,65338,
      65345,65370,65382,65470,65474,65479,65482,65487,65490,65495,65498,65500,65536,65547,65549,
      65574,65576,65594,65596,65597,65599,65613,65616,65629,65664,65786,65799,65843,65856,65912,
      65930,65931,66176,66204,66208,66256,66273,66299,66304,66339,66349,66378,66384,66421,66432,
      66461,66464,66499,66504,66511,66513,66517,66560,66717,66720,66729,66736,66771,66776,66811,
      66816,66855,66864,66915,66928,66938,66940,66954,66956,66962,66964,66965,66967,66977,66979,
      66993,66995,67001,67003,67004,67072,67382,67392,67413,67424,67431,67456,67461,67463,67504,
      67506,67514,67584,67589,67592,67592,67594,67637,67639,67640,67644,67644,67647,67669,67672,
      67702,67705,67742,67751,67759,67808,67826,67828,67829,67835,67867,67872,67897,67968,68023,
      68028,68047,68050,68096,68112,68115,68117,68119,68121,68149,68160,68168,68192,68222,68224,
      68255,68288,68295,68297,68324,68331,68335,68352,68405,68416,68437,68440,68466,68472,68497,
      68521,68527,68608,68680,68736,68786,68800,68850,68858,68899,68912,68921,69216,69246,69248,
      69289,69296,69297,69376,69415,69424,69445,69457,69460,69488,69505,69552,69579,69600,69622,
      69635,69687,69714,69743,69745,69746,69749,69749,69763,69807,69840,69864,69872,69881,69891,
      69926,69942,69951,69956,69956,69959,69959,69968,70002,70006,70006,70019,70066,70081,70084,
      70096,70106,70108,70108,70113,70132,70144,70161,70163,70187,70272,70278,70280,70280,70282,
      70285,70287,70301,70303,70312,70320,70366,70384,70393,70405,70412,70415,70416,70419,70440,
      70442,70448,70450,70451,70453,70457,70461,70461,70480,70480,70493,70497,70656,70708,70727,
      70730,70736,70745,70751,70753,70784,70831,70852,70853,70855,70855,70864,70873,71040,71086,
      71128,71131,71168,71215,71236,71236,71248,71257,71296,71338,71352,71352,71360,71369,71424,
      71450,71472,71483,71488,71494,71680,71723,71840,71922,71935,71942,71945,71945,71948,71955,
      71957,71958,71960,71983,71999,71999,72001,72001,72016,72025,72096,72103,72106,72144,72161,
      72161,72163,72163,72192,72192,72203,72242,72250,72250,72272,72272,72284,72329,72349,72349,
      72368,72440,72704,72712,72714,72750,72768,72768,72784,72812,72818,72847,72960,72966,72968,
      72969,72971,73008,73030,73030,73040,73049,73056,73061,73063,73064,73066,73097,73112,73112,
      73120,73129,73440,73458,73648,73648,73664,73684,73728,74649,74752,74862,74880,75075,77712,
      77808,77824,78894,82944,83526,92160,92728,92736,92766,92768,92777,92784,92862,92864,92873,
      92880,92909,92928,92975,92992,92995,93008,93017,93019,93025,93027,93047,93053,93071,93760,
      93846,93952,94026,94032,94032,94099,94111,94176,94177,94179,94179,94208,100343,100352,101589,
      101632,101640,110576,110579,110581,110587,110589,110590,110592,110882,110928,110930,110948,
      110951,110960,111355,113664,113770,113776,113788,113792,113800,113808,113817,119520,119539,
      119648,119672,119808,119892,119894,119964,119966,119967,119970,119970,119973,119974,119977,
      119980,119982,119993,119995,119995,119997,120003,120005,120069,120071,120074,120077,120084,
      120086,120092,120094,120121,120123,120126,120128,120132,120134,120134,120138,120144,120146,
      120485,120488,120512,120514,120538,120540,120570,120572,120596,120598,120628,120630,120654,
      120656,120686,120688,120712,120714,120744,120746,120770,120772,120779,120782,120831,122624,
      122654,123136,123180,123191,123197,123200,123209,123214,123214,123536,123565,123584,123627,
      123632,123641,124896,124902,124904,124907,124909,124910,124912,124926,124928,125124,125127,
      125135,125184,125251,125259,125259,125264,125273,126065,126123,126125,126127,126129,126132,
      126209,126253,126255,126269,126464,126467,126469,126495,126497,126498,126500,126500,126503,
      126503,126505,126514,126516,126519,126521,126521,126523,126523,126530,126530,126535,126535,
      126537,126537,126539,126539,126541,126543,126545,126546,126548,126548,126551,126551,126553,
      126553,126555,126555,126557,126557,126559,126559,126561,126562,126564,126564,126567,126570,
      126572,126578,126580,126583,126585,126588,126590,126590,126592,126601,126603,126619,126625,
      126627,126629,126633,126635,126651,127232,127244,130032,130041,131072,173791,173824,177976,
      177984,178205,178208,183969,183984,191456,194560,195101,196608,201546>>
\* the code points \d matches and int() reads as digits, in runs of ten whose
\* members are worth 0 to 9
DigitRanges ==
    <<48,57,1632,1641,1776,1785,1984,1993,2406,2415,2534,2543,2662,2671,2790,2799,2918,2927,3046,
      3055,3174,3183,3302,3311,3430,3439,3558,3567,3664,3673,3792,3801,3872,3881,4160,4169,4240,
      4249,6112,6121,6160,6169,6470,6479,6608,6617,6784,6793,6800,6809,6992,7001,7088,7097,7232,
      7241,7248,7257,42528,42537,43216,43225,43264,43273,43472,43481,43504,43513,43600,43609,44016,
      44025,65296,65305,66720,66729,68912,68921,69734,69743,69872,69881,69942,69951,70096,70105,
      70384,70393,70736,70745,70864,70873,71248,71257,71360,71369,71472,71481,71904,71913,72016,
      72025,72784,72793,73040,73049,73120,73129,92768,92777,92864,92873,93008,93017,120782,120791,
      120792,120801,120802,120811,120812,120821,120822,120831,123200,123209,123632,123641,125264,
      125273,130032,130041>>
\* the code points str.isprintable refuses: repr writes them as escapes
NonPrintableRanges ==
    <<0,31,127,160,173,173,888,889,896,899,907,907,909,909,930,930,1328,1328,1367,1368,1419,1420,
      1424,1424,1480,1487,1515,1518,1525,1541,1564,1564,1757,1757,1806,1807,1867,1868,1970,1983,
      2043,2044,2094,2095,2111,2111,2140,2141,2143,2143,2155,2159,2191,2199,2274,2274,2436,2436,
      2445,2446,2449,2450,2473,2473,2481,2481,2483,2485,2490,2491,2501,2502,2505,2506,2511,2518,
      2520,2523,2526,2526,2532,2533,2559,2560,2564,2564,2571,2574,2577,2578,2601,2601,2609,2609,
      2612,2612,2615,2615,2618,2619,2621,2621,2627,2630,2633,2634,2638,2640,2642,2648,2653,2653,
      2655,2661,2679,2688,2692,2692,2702,2702,2706,2706,2729,2729,2737,2737,2740,2740,2746,2747,
      2758,2758,2762,2762,2766,2767,2769,2783,2788,2789,2802,2808,2816,2816,2820,2820,2829,2830,
      2833,2834,2857,2857,2865,2865,2868,2868,2874,2875,2885,2886,2889,2890,2894,2900,2904,2907,
      2910,2910,2916,2917,2936,2945,2948,2948,2955,2957,2961,2961,2966,2968,2971,2971,2973,2973,
      2976,2978,2981,2983,2987,2989,3002,3005,3011,3013,3017,3017,3022,3023,3025,3030,3032,3045,
      3067,3071,3085,3085,3089,3089,3113,3113,3130,3131,3141,3141,3145,3145,3150,3156,3159,3159,
      3163,3164,3166,3167,3172,3173,3184,3190,3213,3213,3217,3217,3241,3241,3252,3252,3258,3259,
      3269,3269,3273,3273,3278,3284,3287,3292,3295,3295,3300,3301,3312,3312,3315,3327,3341,3341,
      3345,3345,3397,3397,3401,3401,3408,3411,3428,3429,3456,3456,3460,3460,3479,3481,3506,3506,
      3516,3516,3518,3519,3527,3529,3531,3534,3541,3541,3543,3543,3552,3557,3568,3569,3573,3584,
      3643,3646,3676,3712,3715,3715,3717,3717,3723,3723,3748,3748,3750,3750,3774,3775,3781,3781,
      3783,3783,3790,3791,3802,3803,3808,3839,3912,3912,3949,3952,3992,3992,4029,4029,4045,4045,
      4059,4095,4294,4294,4296,4300,4302,4303,4681,4681,4686,4687,4695,4695,4697,4697,4702,4703,
      4745,4745,4750,4751,4785,4785,4790,4791,4799,4799,4801,4801,4806,4807,4823,4823,4881,4881,
      4886,4887,4955,4956,4989,4991,5018,5023,5110,5111,5118,5119,5760,5760,5789,5791,5881,5887,
      5910,5918,5943,5951,5972,5983,5997,5997,6001,6001,6004,6015,6110,6111,6122,6127,6138,6143,
      6158,6158,6170,6175,6265,6271,6315,6319,6390,6399,6431,6431,6444,6447,6460,6463,6465,6467,
      6510,6511,6517,6527,6572,6575,6602,6607,6619,6621,6684,6685,6751,6751,6781,6782,6794,6799,
      6810,6815,6830,6831,6863,6911,6989,6991,7039,7039,7156,7163,7224,7226,7242,7244,7305,7311,
      7355,7356,7368,7375,7419,7423,7958,7959,7966,7967,8006,8007,8014,8015,8024,8024,8026,8026,
      8028,8028,8030,8030,8062,8063,8117,8117,8133,8133,8148,8149,8156,8156,8176,8177,8181,8181,
      8191,8207,8232,8239,8287,8303,8306,8307,8335,8335,8349,8351,8385,8399,8433,8447,8588,8591,
      9255,9279,9291,9311,11124,11125,11158,11158,11508,11512,11558,11558,11560,11564,11566,11567,
      11624,11630,11633,11646,11671,11679,11687,11687,11695,11695,11703,11703,11711,11711,11719,
      11719,11727,11727,11735,11735,11743,11743,11870,11903,11930,11930,12020,12031,12246,12271,
      12284,12288,12352,12352,12439,12440,12544,12548,12592,12592,12687,12687,12772,12783,12831,
      12831,42125,42127,42183,42191,42540,42559,42744,42751,42955,42959,42962,42962,42964,42964,
      42970,42993,43053,43055,43066,43071,43128,43135,43206,43213,43226,43231,43348,43358,43389,
      43391,43470,43470,43482,43485,43519,43519,43575,43583,43598,43599,43610,43611,43715,43738,
      43767,43776,43783,43784,43791,43792,43799,43807,43815,43815,43823,43823,43884,43887,44014,
      44015,44026,44031,55204,55215,55239,55242,55292,63743,64110,64111,64218,64255,64263,64274,
      64280,64284,64311,64311,64317,64317,64319,64319,64322,64322,64325,64325,64451,64466,64912,
      64913,64968,64974,64976,65007,65050,65055,65107,65107,65127,65127,65132,65135,65141,65141,
      65277,65280,65471,65473,65480,65481,65488,65489,65496,65497,65501,65503,65511,65511,65519,
      65531,65534,65535,65548,65548,65575,65575,65595,65595,65598,65598,65614,65615,65630,65663,
      65787,65791,65795,65798,65844,65846,65935,65935,65949,65951,65953,65999,66046,66175,66205,
      66207,66257,66271,66300,66303,66340,66348,66379,66383,66427,66431,66462,66462,66500,66503,
      66518,66559,66718,66719,66730,66735,66772,66775,66812,66815,66856,66863,66916,66926,66939,
      66939,66955,66955,66963,66963,66966,66966,66978,66978,66994,66994,67002,67002,67005,67071,
      67383,67391,67414,67423,67432,67455,67462,67462,67505,67505,67515,67583,67590,67591,67593,
      67593,67638,67638,67641,67643,67645,67646,67670,67670,67743,67750,67760,67807,67827,67827,
      67830,67834,67868,67870,67898,67902,67904,67967,68024,68027,68048,68049,68100,68100,68103,
      68107,68116,68116,68120,68120,68150,68151,68155,68158,68169,68175,68185,68191,68256,68287,
      68327,68330,68343,68351,68406,68408,68438,68439,68467,68471,68498,68504,68509,68520,68528,
      68607,68681,68735,68787,68799,68851,68857,68904,68911,68922,69215,69247,69247,69290,69290,
      69294,69295,69298,69375,69416,69423,69466,69487,69514,69551,69580,69599,69623,69631,69710,
      69713,69750,69758,69821,69821,69827,69839,69865,69871,69882,69887,69941,69941,69960,69967,
      70007,70015,70112,70112,70133,70143,70162,70162,70207,70271,70279,70279,70281,70281,70286,
      70286,70302,70302,70314,70319,70379,70383,70394,70399,70404,70404,70413,70414,70417,70418,
      70441,70441,70449,70449,70452,70452,70458,70458,70469,70470,70473,70474,70478,70479,70481,
      70486,70488,70492,70500,70501,70509,70511,70517,70655,70748,70748,70754,70783,70856,70863,
      70874,71039,71094,71095,71134,71167,71237,71247,71258,71263,71277,71295,71354,71359,71370,
      71423,71451,71452,71468,71471,71495,71679,71740,71839,71923,71934,71943,71944,71946,71947,
      71956,71956,71959,71959,71990,71990,71993,71994,72007,72015,72026,72095,72104,72105,72152,
      72153,72165,72191,72264,72271,72355,72367,72441,72703,72713,72713,72759,72759,72774,72783,
      72813,72815,72848,72849,72872,72872,72887,72959,72967,72967,72970,72970,73015,73017,73019,
      73019,73022,73022,73032,73039,73050,73055,73062,73062,73065,73065,73103,73103,73106,73106,
      73113,73119,73130,73439,73465,73647,73649,73663,73714,73726,74650,74751,74863,74863,74869,
      74879,75076,77711,77811,77823,78895,82943,83527,92159,92729,92735,92767,92767,92778,92781,
      92863,92863,92874,92879,92910,92911,92918,92927,92998,93007,93018,93018,93026,93026,93048,
      93052,93072,93759,93851,93951,94027,94030,94088,94094,94112,94175,94181,94191,94194,94207,
      100344,100351,101590,101631,101641,110575,110580,110580,110588,110588,110591,110591,110883,
      110927,110931,110947,110952,110959,111356,113663,113771,113775,113789,113791,113801,113807,
      113818,113819,113824,118527,118574,118575,118599,118607,118724,118783,119030,119039,119079,
      119080,119155,119162,119275,119295,119366,119519,119540,119551,119639,119647,119673,119807,
      119893,119893,119965,119965,119968,119969,119971,119972,119975,119976,119981,119981,119994,
      119994,119996,119996,120004,120004,120070,120070,120075,120076,120085,120085,120093,120093,
      120122,120122,120127,120127,120133,120133,120135,120137,120145,120145,120486,120487,120780,
      120781,121484,121498,121504,121504,121520,122623,122655,122879,122887,122887,122905,122906,
      122914,122914,122917,122917,122923,123135,123181,123183,123198,123199,123210,123213,123216,
      123535,123567,123583,123642,123646,123648,124895,124903,124903,124908,124908,124911,124911,
      124927,124927,125125,125126,125143,125183,125260,125263,125274,125277,125280,126064,126133,
      126208,126270,126463,126468,126468,126496,126496,126499,126499,126501,126502,126504,126504,
      126515,126515,126520,126520,126522,126522,126524,126529,126531,126534,126536,126536,126538,
      126538,126540,126540,126544,126544,126547,126547,126549,126550,126552,126552,126554,126554,
      126556,126556,126558,126558,126560,126560,126563,126563,126565,126566,126571,126571,126579,
      126579,126584,126584,126589,126589,126591,126591,126602,126602,126620,126624,126628,126628,
      126634,126634,126652,126703,126706,126975,127020,127023,127124,127135,127151,127152,127168,
      127168,127184,127184,127222,127231,127406,127461,127491,127503,127548,127551,127561,127567,
      127570,127583,127590,127743,128728,128732,128749,128751,128765,128767,128884,128895,128985,
      128991,129004,129007,129009,129023,129036,129039,129096,129103,129114,129119,129160,129167,
      129198,129199,129202,129279,129620,129631,129646,129647,129653,129655,129661,129663,129671,
      129679,129709,129711,129723,129727,129734,129743,129754,129759,129768,129775,129783,129791,
      129939,129939,129995,130031,130042,131071,173792,173823,177977,177983,178206,178207,183970,
      183983,191457,194559,195102,196607,201547,917759,918000,1114111>>
\* the code points that have a case (str.islower, isupper or istitle), and
\* those the final-sigma rule of str.lower skips
CasedRanges ==
    <<65,90,97,122,170,170,181,181,186,186,192,214,216,246,248,442,444,447,452,659,661,696,704,705,
      736,740,837,837,880,883,886,887,890,893,895,895,902,902,904,906,908,908,910,929,931,1013,1015,
      1153,1162,1327,1329,1366,1376,1416,4256,4293,4295,4295,4301,4301,4304,4346,4349,4351,5024,
      5109,5112,5117,7296,7304,7312,7354,7357,7359,7424,7615,7680,7957,7960,7965,7968,8005,8008,
      8013,8016,8023,8025,8025,8027,8027,8029,8029,8031,8061,8064,8116,8118,8124,8126,8126,8130,
      8132,8134,8140,8144,8147,8150,8155,8160,8172,8178,8180,8182,8188,8305,8305,8319,8319,8336,
      8348,8450,8450,8455,8455,8458,8467,8469,8469,8473,8477,8484,8484,8486,8486,8488,8488,8490,
      8493,8495,8500,8505,8505,8508,8511,8517,8521,8526,8526,8544,8575,8579,8580,9398,9449,11264,
      11492,11499,11502,11506,11507,11520,11557,11559,11559,11565,11565,42560,42605,42624,42653,
      42786,42887,42891,42894,42896,42954,42960,42961,42963,42963,42965,42969,42997,42998,43000,
      43002,43824,43866,43868,43880,43888,43967,64256,64262,64275,64279,65313,65338,65345,65370,
      66560,66639,66736,66771,66776,66811,66928,66938,66940,66954,66956,66962,66964,66965,66967,
      66977,66979,66993,66995,67001,67003,67004,67456,67456,67459,67461,67463,67504,67506,67514,
      68736,68786,68800,68850,71840,71903,93760,93823,119808,119892,119894,119964,119966,119967,
      119970,119970,119973,119974,119977,119980,119982,119993,119995,119995,119997,120003,120005,
      120069,120071,120074,120077,120084,120086,120092,120094,120121,120123,120126,120128,120132,
      120134,120134,120138,120144,120146,120485,120488,120512,120514,120538,120540,120570,120572,
      120596,120598,120628,120630,120654,120656,120686,120688,120712,120714,120744,120746,120770,
      120772,120779,122624,122633,122635,122654,125184,125251,127280,127305,127312,127337,127344,
      127369>>
CaseIgnorableRanges ==
    <<39,39,46,46,58,58,94,94,96,96,168,168,173,173,175,175,180,180,183,184,688,879,884,885,890,890,
      900,901,903,903,1155,1161,1369,1369,1375,1375,1425,1469,1471,1471,1473,1474,1476,1477,1479,
      1479,1524,1524,1536,1541,1552,1562,1564,1564,1600,1600,1611,1631,1648,1648,1750,1757,1759,
      1768,1770,1773,1807,1807,1809,1809,1840,1866,1958,1968,2027,2037,2042,2042,2045,2045,2070,
      2093,2137,2139,2184,2184,2192,2193,2200,2207,2249,2306,2362,2362,2364,2364,2369,2376,2381,
      2381,2385,2391,2402,2403,2417,2417,2433,2433,2492,2492,2497,2500,2509,2509,2530,2531,2558,
      2558,2561,2562,2620,2620,2625,2626,2631,2632,2635,2637,2641,2641,2672,2673,2677,2677,2689,
      2690,2748,2748,2753,2757,2759,2760,2765,2765,2786,2787,2810,2815,2817,2817,2876,2876,2879,
      2879,2881,2884,2893,2893,2901,2902,2914,2915,2946,2946,3008,3008,3021,3021,3072,3072,3076,
      3076,3132,3132,3134,3136,3142,3144,3146,3149,3157,3158,3170,3171,3201,3201,3260,3260,3263,
      3263,3270,3270,3276,3277,3298,3299,3328,3329,3387,3388,3393,3396,3405,3405,3426,3427,3457,
      3457,3530,3530,3538,3540,3542,3542,3633,3633,3636,3642,3654,3662,3761,3761,3764,3772,3782,
      3782,3784,3789,3864,3865,3893,3893,3895,3895,3897,3897,3953,3966,3968,3972,3974,3975,3981,
      3991,3993,4028,4038,4038,4141,4144,4146,4151,4153,4154,4157,4158,4184,4185,4190,4192,4209,
      4212,4226,4226,4229,4230,4237,4237,4253,4253,4348,4348,4957,4959,5906,5908,5938,5939,5970,
      5971,6002,6003,6068,6069,6071,6077,6086,6086,6089,6099,6103,6103,6109,6109,6155,6159,6211,
      6211,6277,6278,6313,6313,6432,6434,6439,6440,6450,6450,6457,6459,6679,6680,6683,6683,6742,
      6742,6744,6750,6752,6752,6754,6754,6757,6764,6771,6780,6783,6783,6823,6823,6832,6862,6912,
      6915,6964,6964,6966,6970,6972,6972,6978,6978,7019,7027,7040,7041,7074,7077,7080,7081,7083,
      7085,7142,7142,7144,7145,7149,7149,7151,7153,7212,7219,7222,7223,7288,7293,7376,7378,7380,
      7392,7394,7400,7405,7405,7412,7412,7416,7417,7468,7530,7544,7544,7579,7679,8125,8125,8127,
      8129,8141,8143,8157,8159,8173,8175,8189,8190,8203,8207,8216,8217,8228,8228,8231,8231,8234,
      8238,8288,8292,8294,8303,8305,8305,8319,8319,8336,8348,8400,8432,11388,11389,11503,11505,
      11631,11631,11647,11647,11744,11775,11823,11823,12293,12293,12330,12333,12337,12341,12347,
      12347,12441,12446,12540,12542,40981,40981,42232,42237,42508,42508,42607,42610,42612,42621,
      42623,42623,42652,42655,42736,42737,42752,42785,42864,42864,42888,42890,42994,42996,43000,
      43001,43010,43010,43014,43014,43019,43019,43045,43046,43052,43052,43204,43205,43232,43249,
      43263,43263,43302,43309,43335,43345,43392,43394,43443,43443,43446,43449,43452,43453,43471,
      43471,43493,43494,43561,43566,43569,43570,43573,43574,43587,43587,43596,43596,43632,43632,
      43644,43644,43696,43696,43698,43700,43703,43704,43710,43711,43713,43713,43741,43741,43756,
      43757,43763,43764,43766,43766,43867,43871,43881,43883,44005,44005,44008,44008,44013,44013,
      64286,64286,64434,64450,65024,65039,65043,65043,65056,65071,65106,65106,65109,65109,65279,
      65279,65287,65287,65294,65294,65306,65306,65342,65342,65344,65344,65392,65392,65438,65439,
      65507,65507,65529,65531,66045,66045,66272,66272,66422,66426,67456,67461,67463,67504,67506,
      67514,68097,68099,68101,68102,68108,68111,68152,68154,68159,68159,68325,68326,68900,68903,
      69291,69292,69446,69456,69506,69509,69633,69633,69688,69702,69744,69744,69747,69748,69759,
      69761,69811,69814,69817,69818,69821,69821,69826,69826,69837,69837,69888,69890,69927,69931,
      69933,69940,70003,70003,70016,70017,70070,70078,70089,70092,70095,70095,70191,70193,70196,
      70196,70198,70199,70206,70206,70367,70367,70371,70378,70400,70401,70459,70460,70464,70464,
      70502,70508,70512,70516,70712,70719,70722,70724,70726,70726,70750,70750,70835,70840,70842,
      70842,70847,70848,70850,70851,71090,71093,71100,71101,71103,71104,71132,71133,71219,71226,
      71229,71229,71231,71232,71339,71339,71341,71341,71344,71349,71351,71351,71453,71455,71458,
      71461,71463,71467,71727,71735,71737,71738,71995,71996,71998,71998,72003,72003,72148,72151,
      72154,72155,72160,72160,72193,72202,72243,72248,72251,72254,72263,72263,72273,72278,72281,
      72283,72330,72342,72344,72345,72752,72758,72760,72765,72767,72767,72850,72871,72874,72880,
      72882,72883,72885,72886,73009,73014,73018,73018,73020,73021,73023,73029,73031,73031,73104,
      73105,73109,73109,73111,73111,73459,73460,78896,78904,92912,92916,92976,92982,92992,92995,
      94031,94031,94095,94111,94176,94177,94179,94180,110576,110579,110581,110587,110589,110590,
      113821,113822,113824,113827,118528,118573,118576,118598,119143,119145,119155,119170,119173,
      119179,119210,119213,119362,119364,121344,121398,121403,121452,121461,121461,121476,121476,
      121499,121503,121505,121519,122880,122886,122888,122904,122907,122913,122915,122916,122918,
      122922,123184,123197,123566,123566,123628,123631,125136,125142,125252,125259,127995,127999,
      917505,917505,917536,917631,917760,917999>>
\* str.upper and str.lower of one code point where the result is one code
\* point: lo, hi, step, image of lo; the code points lo, lo + step, ... hi
\* go to the image of lo plus their distance from lo
UpperGroups ==
    <<97,122,1,65,181,181,1,924,224,246,1,192,248,254,1,216,255,255,1,376,257,303,2,256,305,305,1,
      73,307,311,2,306,314,328,2,313,331,375,2,330,378,382,2,377,383,383,1,83,384,384,1,579,387,389,
      2,386,392,392,1,391,396,396,1,395,402,402,1,401,405,405,1,502,409,409,1,408,410,410,1,573,414,
      414,1,544,417,421,2,416,424,424,1,423,429,429,1,428,432,432,1,431,436,438,2,435,441,441,1,440,
      445,445,1,444,447,447,1,503,453,453,1,452,454,454,1,452,456,456,1,455,457,457,1,455,459,459,1,
      458,460,460,1,458,462,476,2,461,477,477,1,398,479,495,2,478,498,498,1,497,499,499,1,497,501,
      501,1,500,505,543,2,504,547,563,2,546,572,572,1,571,575,576,1,11390,578,578,1,577,583,591,2,
      582,592,592,1,11375,593,593,1,11373,594,594,1,11376,595,595,1,385,596,596,1,390,598,599,1,393,
      601,601,1,399,603,603,1,400,604,604,1,42923,608,608,1,403,609,609,1,42924,611,611,1,404,613,
      613,1,42893,614,614,1,42922,616,616,1,407,617,617,1,406,618,618,1,42926,619,619,1,11362,620,
      620,1,42925,623,623,1,412,625,625,1,11374,626,626,1,413,629,629,1,415,637,637,1,11364,640,640,
      1,422,642,642,1,42949,643,643,1,425,647,647,1,42929,648,648,1,430,649,649,1,580,650,651,1,433,
      652,652,1,581,658,658,1,439,669,669,1,42930,670,670,1,42928,837,837,1,921,881,883,2,880,887,
      887,1,886,891,893,1,1021,940,940,1,902,941,943,1,904,945,961,1,913,962,962,1,931,963,971,1,
      931,972,972,1,908,973,974,1,910,976,976,1,914,977,977,1,920,981,981,1,934,982,982,1,928,983,
      983,1,975,985,1007,2,984,1008,1008,1,922,1009,1009,1,929,1010,1010,1,1017,1011,1011,1,895,
      1013,1013,1,917,1016,1016,1,1015,1019,1019,1,1018,1072,1103,1,1040,1104,1119,1,1024,1121,1153,
      2,1120,1163,1215,2,1162,1218,1230,2,1217,1231,1231,1,1216,1233,1327,2,1232,1377,1414,1,1329,
      4304,4346,1,7312,4349,4351,1,7357,5112,5117,1,5104,7296,7296,1,1042,7297,7297,1,1044,7298,
      7298,1,1054,7299,7300,1,1057,7301,7301,1,1058,7302,7302,1,1066,7303,7303,1,1122,7304,7304,1,
      42570,7545,7545,1,42877,7549,7549,1,11363,7566,7566,1,42950,7681,7829,2,7680,7835,7835,1,7776,
      7841,7935,2,7840,7936,7943,1,7944,7952,7957,1,7960,7968,7975,1,7976,7984,7991,1,7992,8000,
      8005,1,8008,8017,8023,2,8025,8032,8039,1,8040,8048,8049,1,8122,8050,8053,1,8136,8054,8055,1,
      8154,8056,8057,1,8184,8058,8059,1,8170,8060,8061,1,8186,8112,8113,1,8120,8126,8126,1,921,8144,
      8145,1,8152,8160,8161,1,8168,8165,8165,1,8172,8526,8526,1,8498,8560,8575,1,8544,8580,8580,1,
      8579,9424,9449,1,9398,11312,11359,1,11264,11361,11361,1,11360,11365,11365,1,570,11366,11366,1,
      574,11368,11372,2,11367,11379,11379,1,11378,11382,11382,1,11381,11393,11491,2,11392,11500,
      11502,2,11499,11507,11507,1,11506,11520,11557,1,4256,11559,11559,1,4295,11565,11565,1,4301,
      42561,42605,2,42560,42625,42651,2,42624,42787,42799,2,42786,42803,42863,2,42802,42874,42876,2,
      42873,42879,42887,2,42878,42892,42892,1,42891,42897,42899,2,42896,42900,42900,1,42948,42903,
      42921,2,42902,42933,42947,2,42932,42952,42954,2,42951,42961,42961,1,42960,42967,42969,2,42966,
      42998,42998,1,42997,43859,43859,1,42931,43888,43967,1,5024,65345,65370,1,65313,66600,66639,1,
      66560,66776,66811,1,66736,66967,66977,1,66928,66979,66993,1,66940,66995,67001,1,66956,67003,
      67004,1,66964,68800,68850,1,68736,71872,71903,1,71840,93792,93823,1,93760,125218,125251,1,
      125184>>
LowerGroups ==
    <<65,90,1,97,192,214,1,224,216,222,1,248,256,302,2,257,306,310,2,307,313,327,2,314,330,374,2,
      331,376,376,1,255,377,381,2,378,385,385,1,595,386,388,2,387,390,390,1,596,391,391,1,392,393,
      394,1,598,395,395,1,396,398,398,1,477,399,399,1,601,400,400,1,603,401,401,1,402,403,403,1,608,
      404,404,1,611,406,406,1,617,407,407,1,616,408,408,1,409,412,412,1,623,413,413,1,626,415,415,1,
      629,416,420,2,417,422,422,1,640,423,423,1,424,425,425,1,643,428,428,1,429,430,430,1,648,431,
      431,1,432,433,434,1,650,435,437,2,436,439,439,1,658,440,440,1,441,444,444,1,445,452,452,1,454,
      453,453,1,454,455,455,1,457,456,456,1,457,458,458,1,460,459,475,2,460,478,494,2,479,497,497,1,
      499,498,500,2,499,502,502,1,405,503,503,1,447,504,542,2,505,544,544,1,414,546,562,2,547,570,
      570,1,11365,571,571,1,572,573,573,1,410,574,574,1,11366,577,577,1,578,579,579,1,384,580,580,1,
      649,581,581,1,652,582,590,2,583,880,882,2,881,886,886,1,887,895,895,1,1011,902,902,1,940,904,
      906,1,941,908,908,1,972,910,911,1,973,913,929,1,945,931,939,1,963,975,975,1,983,984,1006,2,
      985,1012,1012,1,952,1015,1015,1,1016,1017,1017,1,1010,1018,1018,1,1019,1021,1023,1,891,1024,
      1039,1,1104,1040,1071,1,1072,1120,1152,2,1121,1162,1214,2,1163,1216,1216,1,1231,1217,1229,2,
      1218,1232,1326,2,1233,1329,1366,1,1377,4256,4293,1,11520,4295,4295,1,11559,4301,4301,1,11565,
      5024,5103,1,43888,5104,5109,1,5112,7312,7354,1,4304,7357,7359,1,4349,7680,7828,2,7681,7838,
      7838,1,223,7840,7934,2,7841,7944,7951,1,7936,7960,7965,1,7952,7976,7983,1,7968,7992,7999,1,
      7984,8008,8013,1,8000,8025,8031,2,8017,8040,8047,1,8032,8072,8079,1,8064,8088,8095,1,8080,
      8104,8111,1,8096,8120,8121,1,8112,8122,8123,1,8048,8124,8124,1,8115,8136,8139,1,8050,8140,
      8140,1,8131,8152,8153,1,8144,8154,8155,1,8054,8168,8169,1,8160,8170,8171,1,8058,8172,8172,1,
      8165,8184,8185,1,8056,8186,8187,1,8060,8188,8188,1,8179,8486,8486,1,969,8490,8490,1,107,8491,
      8491,1,229,8498,8498,1,8526,8544,8559,1,8560,8579,8579,1,8580,9398,9423,1,9424,11264,11311,1,
      11312,11360,11360,1,11361,11362,11362,1,619,11363,11363,1,7549,11364,11364,1,637,11367,11371,
      2,11368,11373,11373,1,593,11374,11374,1,625,11375,11375,1,592,11376,11376,1,594,11378,11378,1,
      11379,11381,11381,1,11382,11390,11391,1,575,11392,11490,2,11393,11499,11501,2,11500,11506,
      11506,1,11507,42560,42604,2,42561,42624,42650,2,42625,42786,42798,2,42787,42802,42862,2,42803,
      42873,42875,2,42874,42877,42877,1,7545,42878,42886,2,42879,42891,42891,1,42892,42893,42893,1,
      613,42896,42898,2,42897,42902,42920,2,42903,42922,42922,1,614,42923,42923,1,604,42924,42924,1,
      609,42925,42925,1,620,42926,42926,1,618,42928,42928,1,670,42929,42929,1,647,42930,42930,1,669,
      42931,42931,1,43859,42932,42946,2,42933,42948,42948,1,42900,42949,42949,1,642,42950,42950,1,
      7566,42951,42953,2,42952,42960,42960,1,42961,42966,42968,2,42967,42997,42997,1,42998,65313,
      65338,1,65345,66560,66599,1,66600,66736,66771,1,66776,66928,66938,1,66967,66940,66954,1,66979,
      66956,66962,1,66995,66964,66965,1,67003,68736,68786,1,68800,71840,71871,1,71872,93760,93791,1,
      93792,125184,125217,1,125218>>
\* str.upper of one code point where the result is two or three code points:
\* code point, then its three images, 0 where there is none
UpperSpecial ==
    <<223,83,83,0,329,700,78,0,496,74,780,0,912,921,776,769,944,933,776,769,1415,1333,1362,0,7830,
      72,817,0,7831,84,776,0,7832,87,778,0,7833,89,778,0,7834,65,702,0,8016,933,787,0,8018,933,787,
      768,8020,933,787,769,8022,933,787,834,8064,7944,921,0,8065,7945,921,0,8066,7946,921,0,8067,
      7947,921,0,8068,7948,921,0,8069,7949,921,0,8070,7950,921,0,8071,7951,921,0,8072,7944,921,0,
      8073,7945,921,0,8074,7946,921,0,8075,7947,921,0,8076,7948,921,0,8077,7949,921,0,8078,7950,921,
      0,8079,7951,921,0,8080,7976,921,0,8081,7977,921,0,8082,7978,921,0,8083,7979,921,0,8084,7980,
      921,0,8085,7981,921,0,8086,7982,921,0,8087,7983,921,0,8088,7976,921,0,8089,7977,921,0,8090,
      7978,921,0,8091,7979,921,0,8092,7980,921,0,8093,7981,921,0,8094,7982,921,0,8095,7983,921,0,
      8096,8040,921,0,8097,8041,921,0,8098,8042,921,0,8099,8043,921,0,8100,8044,921,0,8101,8045,921,
      0,8102,8046,921,0,8103,8047,921,0,8104,8040,921,0,8105,8041,921,0,8106,8042,921,0,8107,8043,
      921,0,8108,8044,921,0,8109,8045,921,0,8110,8046,921,0,8111,8047,921,0,8114,8122,921,0,8115,
      913,921,0,8116,902,921,0,8118,913,834,0,8119,913,834,921,8124,913,921,0,8130,8138,921,0,8131,
      919,921,0,8132,905,921,0,8134,919,834,0,8135,919,834,921,8140,919,921,0,8146,921,776,768,8147,
      921,776,769,8150,921,834,0,8151,921,776,834,8162,933,776,768,8163,933,776,769,8164,929,787,0,
      8166,933,834,0,8167,933,776,834,8178,8186,921,0,8179,937,921,0,8180,911,921,0,8182,937,834,0,
      8183,937,834,921,8188,937,921,0,64256,70,70,0,64257,70,73,0,64258,70,76,0,64259,70,70,73,
      64260,70,70,76,64261,83,84,0,64262,83,84,0,64275,1348,1350,0,64276,1348,1333,0,64277,1348,
      1339,0,64278,1358,1350,0,64279,1348,1341,0>>

\* the whitespace of str.strip
IsSpace(c) == Ord(c) \in StripSpaces
\* the whitespace of int()
IsIntSpace(c) == Ord(c) \in IntSpaces

\* \w: the ASCII letters, digits and the underscore at once, the rest by the
\* table
WordPoint(n) ==
    IF n < 128 THEN n \in (48..57) \cup (65..90) \cup {95} \cup (97..122)
    ELSE InRanges(n, WordRanges)
IsWordChar(c) == WordPoint(Ord(c))

\* \d, and the value int() gives the digit
DigitPoint(n) == IF n < 128 THEN n \in 48..57 ELSE InRanges(n, DigitRanges)
IsDigit(c) == DigitPoint(Ord(c))
DigitRun(n) ==
    CHOOSE i \in 1..(Len(DigitRanges) \div 2) :
        DigitRanges[2 * i - 1] <= n /\ n <= DigitRanges[2 * i]
DigitPointVal(n) == n - DigitRanges[2 * DigitRun(n) - 1]
DigitVal(c) == DigitPointVal(Ord(c))

\* the image of code point n under a table of groups; n itself where no group
\* holds it
InGroup(n, groups, i) ==
    /\ groups[4 * i - 3] <= n
    /\ n <= groups[4 * i - 2]
    /\ (n - groups[4 * i - 3]) % groups[4 * i - 1] = 0
GroupOf(n, groups) == CHOOSE i \in 1..(Len(groups) \div 4) : InGroup(n, groups, i)
GroupImage(n, groups) ==
    IF \E i \in 1..(Len(groups) \div 4) : InGroup(n, groups, i)
    THEN groups[4 * GroupOf(n, groups)] + (n - groups[4 * GroupOf(n, groups) - 3])
    ELSE n

LowerChar(c) == IF InSeq(c, UpperChars) THEN LowerChars[IndexOf(c, UpperChars)] ELSE c
UpperChar(c) == IF InSeq(c, LowerChars) THEN UpperChars[IndexOf(c, LowerChars)] ELSE c

\* str.upper of one character, as the characters it becomes
SpecialOf(n) == CHOOSE i \in 1..(Len(UpperSpecial) \div 4) : UpperSpecial[4 * i - 3] = n
SpecialImage(i) ==
    <<CharOf(UpperSpecial[4 * i - 2]), CharOf(UpperSpecial[4 * i - 1])>>
    \o (IF UpperSpecial[4 * i] # 0 THEN <<CharOf(UpperSpecial[4 * i])>> ELSE <<>>)
UpperPoint(n) ==
    IF \E i \in 1..(Len(UpperSpecial) \div 4) : UpperSpecial[4 * i - 3] = n
    THEN SpecialImage(SpecialOf(n))
    ELSE <<CharOf(GroupImage(n, UpperGroups))>>
UpperOf(c) == IF IsCodePoint(c) THEN UpperPoint(CodePoint(c)) ELSE <<UpperChar(c)>>

\* str.upper
RECURSIVE Upper(_)
Upper(s) == IF s = <<>> THEN <<>> ELSE UpperOf(Head(s)) \o Upper(Tail(s))

\* the final-sigma rule: the capital sigma at place i of s becomes the final
\* small sigma when the nearest character before it that is not
\* case-ignorable is cased, and the nearest such character after it, if
\* there is one, is not
IsCased(c) == InRanges(Ord(c), CasedRanges)
IsCaseIgnorable(c) == InRanges(Ord(c), CaseIgnorableRanges)
LastOf(S) == CHOOSE i \in S : \A j \in S : i >= j
FirstOf(S) == CHOOSE i \in S : \A j \in S : i <= j
CasedBefore(s, before) == IF before = {} THEN FALSE ELSE IsCased(s[LastOf(before)])
CasedAfter(s, after) == IF after = {} THEN FALSE ELSE IsCased(s[FirstOf(after)])
FinalSigma(s, i) ==
    IF CasedBefore(s, {j \in 1..(i - 1) : ~IsCaseIgnorable(s[j])})
    THEN ~CasedAfter(s, {j \in (i + 1)..Len(s) : ~IsCaseIgnorable(s[j])})
    ELSE FALSE

\* str.lower of the character at place i of s, as the characters it becomes:
\* the capital sigma by the rule above, the dotted capital I (U+0130) to i
\* and the combining dot, any other character by the table
LowerPoint(n) ==
    IF n = 304 THEN <<"i", "U+0307">> ELSE <<CharOf(GroupImage(n, LowerGroups))>>
LowerAt(s, i) ==
    IF s[i] = "U+03A3" THEN <<IF FinalSigma(s, i) THEN "U+03C2" ELSE "U+03C3">>
    ELSE IF IsCodePoint(s[i]) THEN LowerPoint(CodePoint(s[i]))
    ELSE <<LowerChar(s[i])>>

\* str.lower
RECURSIVE LowerFrom(_, _)
LowerFrom(s, i) == IF i > Len(s) THEN <<>> ELSE LowerAt(s, i) \o LowerFrom(s, i + 1)
Lower(s) == LowerFrom(s, 1)

\* str.strip: leading and trailing whitespace removed
Strip(s) ==
    LET ns == {i \in 1..Len(s) : ~IsSpace(s[i])}
    IN  IF ns = {} THEN <<>>
        ELSE LET lo == CHOOSE i \in ns : \A j \in ns : i <= j
                 hi == CHOOSE i \in ns : \A j \in ns : i >= j
             IN  SubSeq(s, lo, hi)

\* str.rstrip("/")
RStripSlash(s) ==
    LET ns == {i \in 1..Len(s) : s[i] # "/"}
    IN  IF ns = {} THEN <<>>
        ELSE SubSeq(s, 1, CHOOSE i \in ns : \A j \in ns : i >= j)

RECURSIVE DigitsValue(_)
DigitsValue(s) ==
    IF s = <<>> THEN 0
    ELSE 10 * DigitsValue(SubSeq(s, 1, Len(s) - 1)) + DigitVal(s[Len(s)])

\* The digits of an int() literal body with its underscores taken out
RECURSIVE DropUnderscores(_)
DropUnderscores(s) ==
    IF s = <<>> THEN <<>>
    ELSE IF s[1] = "_" THEN DropUnderscores(Tail(s))
    ELSE <<s[1]>> \o DropUnderscores(Tail(s))

\* the whitespace int() allows around the literal, removed
IntStrip(s) ==
    LET ns == {i \in 1..Len(s) : ~IsIntSpace(s[i])}
    IN  IF ns = {} THEN <<>>
        ELSE LET lo == CHOOSE i \in ns : \A j \in ns : i <= j
                 hi == CHOOSE i \in ns : \A j \in ns : i >= j
             IN  SubSeq(s, lo, hi)

\* the longest literal int() converts (sys.get_int_max_str_digits())
MaxStrDigits == 4300

\* int(raw): surrounding whitespace, an optional sign, then decimal digits of
\* any script, where a single underscore may stand between two digits
\* ("1_000" is 1000; "1__0", "_1" and "1_" are refused).  [ok |-> FALSE]
\* stands for the ValueError.
WellFormedBody(body) ==
    /\ body # <<>>
    /\ \A i \in 1..Len(body) :
          IF body[i] = "_"
          THEN i > 1 /\ i < Len(body) /\ IsDigit(body[i-1]) /\ IsDigit(body[i+1])
          ELSE IsDigit(body[i])
SignedValue(neg, value) == [ok |-> TRUE, v |-> IF neg THEN 0 - value ELSE value]
ParseDigits(neg, digits) ==
    IF Len(digits) <= MaxStrDigits
    THEN SignedValue(neg, DigitsValue(digits))
    ELSE [ok |-> FALSE, v |-> 0]
ParseBody(neg, body) ==
    IF WellFormedBody(body)
    THEN ParseDigits(neg, DropUnderscores(body))
    ELSE [ok |-> FALSE, v |-> 0]
ParseStripped(s) ==
    IF s # <<>> /\ s[1] \in {"-", "+"}
    THEN ParseBody(s[1] = "-", Tail(s))
    ELSE ParseBody(FALSE, s)
ParseInt(raw) == ParseStripped(IntStrip(raw))

-----------------------------------------------------------------------------
(* JSON values and the dotted-path helper of formatter.py *)

JNone == [t |-> "none"]
JStr(s) == [t |-> "str", v |-> s]
JTime(ts) == [t |-> "time", v |-> ts]
JList(l) == [t |-> "list", v |-> l]

\* the literal "未指派" (unassigned), held as its three code points; they lie
\* beyond every ASCII character
UNASSIGNED == <<"U+672A", "U+6307", "U+6D3E">>

\* a Python dict as the sequence of its <<key, value>> items in insertion
\* order: d[k] = v keeps the position of a key that is already there
DictKeys(d) == {d[i][1] : i \in 1..Len(d)}
DictPut(d, k, v) ==
    IF k \in DictKeys(d)
    THEN [i \in 1..Len(d) |-> IF d[i][1] = k THEN <<k, v>> ELSE d[i]]
    ELSE Append(d, <<k, v>>)
DictAsMap(d) ==
    [k \in DictKeys(d) |-> d[CHOOSE i \in 1..Len(d) : d[i][1] = k][2]]

\* the dict that holds the members written in `items`: a key written twice
\* keeps its first place and its last value
RECURSIVE DictOf(_)
DictOf(items) ==
    IF items = <<>> THEN <<>>
    ELSE LET last == items[Len(items)]
         IN  DictPut(DictOf(SubSeq(items, 1, Len(items) - 1)), last[1], last[2])

\* a JSON object from its <<key, value>> members in the order they are
\* written: v is the mapping, keys the insertion order of its keys
JDict(items) ==
    LET d == DictOf(items)
    IN  [t |-> "dict", v |-> DictAsMap(d), keys |-> [i \in 1..Len(d) |-> d[i][1]]]

\* dict.get(key): None when the key is absent
DictGet(d, key) == IF key \in DOMAIN d.v THEN d.v[key] ELSE JNone

\* dict.get(key, ""): "" when the key is absent, the value (None included)
\* when it is there
DictGetOrEmpty(d, key) == IF key \in DOMAIN d.v THEN d.v[key] ELSE JStr(<<>>)

\* Python truthiness of a JSON value
Truthy(x) ==
    CASE x.t = "none" -> FALSE
      [] x.t = "str"  -> x.v # <<>>
      [] x.t = "dict" -> DOMAIN x.v # {}
      [] x.t = "list" -> x.v # <<>>
      [] OTHER        -> TRUE

\* a value that a set or the keys of a dict can hold: lists and dicts are
\* unhashable, adding one raises TypeError
Hashable(x) == x.t \notin {"dict", "list"}

\* a name of the code that no value was assigned to yet
Unbound == [t |-> "unbound"]

\* len(x) is defined: on lists, objects and strings, not on null
Sized(x) == x.t \in {"list", "dict", "str", "time"}

\* x[:k] is defined: on lists and strings; an object takes no slice
Sliceable(x) == x.t \in {"list", "str", "time"}

\* n written with `width` lower-case hexadecimal digits
HexLower == DigitChars \o <<"a","b","c","d","e","f">>
RECURSIVE HexDigits(_, _)
HexDigits(n, width) ==
    IF width = 0 THEN <<>>
    ELSE HexDigits(n \div 16, width - 1) \o <<HexLower[(n % 16) + 1]>>

\* the escape repr writes for a character that is not printable: \xNN,
\* \uNNNN or \UNNNNNNNN by the size of the code point
EscapeWidth(n) == IF n < 256 THEN 2 ELSE IF n < 65536 THEN 4 ELSE 8
EscapeLetter(w) == CASE w = 2 -> "x" [] w = 4 -> "u" [] OTHER -> "U"
EscapeOfWidth(n, w) == <<"\\", EscapeLetter(w)>> \o HexDigits(n, w)
HexEscape(n) == EscapeOfWidth(n, EscapeWidth(n))

\* the code points repr does not print as they are
NonPrintable(n) == InRanges(n, NonPrintableRanges)

\* one character of a string inside repr's quotes q; a character beyond
\* ASCII, of code point n, is printed as it stands unless it is not printable
EscapePoint(c, n) == IF NonPrintable(n) THEN HexEscape(n) ELSE <<c>>
EscapeChar(c, q) ==
    CASE c = "\\" -> <<"\\", "\\">>
      [] c = "\n" -> <<"\\", "n">>
      [] c = "\t" -> <<"\\", "t">>
      [] c = "\r" -> <<"\\", "r">>
      [] c = "\f" -> <<"\\", "x", "0", "c">>
      [] c = q    -> <<"\\", q>>
      [] OTHER    -> IF IsCodePoint(c) THEN EscapePoint(c, CodePoint(c)) ELSE <<c>>
RECURSIVE EscapeAll(_, _)
EscapeAll(s, q) ==
    IF s = <<>> THEN <<>> ELSE EscapeChar(Head(s), q) \o EscapeAll(Tail(s), q)

\* repr of a string: single quotes, double quotes when the string holds a
\* single quote and no double quote
ReprStr(s) ==
    LET q == IF InSeq("'", s) /\ ~InSeq("\"", s) THEN "\"" ELSE "'"
    IN  <<q>> \o EscapeAll(s, q) \o <<q>>

\* n % 100 written with two digits, n % 10000 with four
TwoDigits(n) == <<DigitChars[((n \div 10) % 10) + 1], DigitChars[(n % 10) + 1]>>
FourDigits(n) == TwoDigits(n \div 100) \o TwoDigits(n)

\* a number of at least two digits, written in full
RECURSIVE AtLeastTwoDigits(_)
AtLeastTwoDigits(n) ==
    IF n < 100 THEN TwoDigits(n)
    ELSE AtLeastTwoDigits(n \div 10) \o <<DigitChars[(n % 10) + 1]>>

\* The proleptic Gregorian calendar of datetime.  Days are counted from
\* 0000-03-01, in eras of 400 years (146097 days); 2025-01-01 is day 739557.
DayOfEra(z) == z % 146097
YearOfEra(doe) == (doe - doe \div 1460 + doe \div 36524 - doe \div 146096) \div 365
DayOfYear(doe, yoe) == doe - (365 * yoe + yoe \div 4 - yoe \div 100)
MonthPart(doy) == (5 * doy + 2) \div 153
MonthOfPart(mp) == IF mp < 10 THEN mp + 3 ELSE mp - 9
DayOfPart(doy, mp) == doy - (153 * mp + 2) \div 5 + 1
YearOfParts(z, yoe, mp) == yoe + 400 * (z \div 146097) + (IF mp < 10 THEN 0 ELSE 1)
DateOfParts(z, yoe, doy, mp) ==
    FourDigits(YearOfParts(z, yoe, mp)) \o <<"-">> \o TwoDigits(MonthOfPart(mp))
    \o <<"-">> \o TwoDigits(DayOfPart(doy, mp))
DateOfYear(z, yoe, doy) == DateOfParts(z, yoe, doy, MonthPart(doy))
DateOfEra(z, doe, yoe) == DateOfYear(z, yoe, DayOfYear(doe, yoe))
\* YYYY-MM-DD of day z
DateText(z) == DateOfEra(z, DayOfEra(z), YearOfEra(DayOfEra(z)))

\* HH:MM:SS of the second `rem` of a day
ClockText(rem) ==
    TwoDigits(rem \div 3600) \o <<":">> \o TwoDigits((rem \div 60) % 60)
    \o <<":">> \o TwoDigits(rem % 60)

\* +HHMM of an offset of `a` seconds, with the seconds when there are any
ZoneDigits(a) ==
    AtLeastTwoDigits(a \div 3600) \o TwoDigits((a \div 60) % 60)
    \o (IF (a % 60) # 0 THEN TwoDigits(a % 60) ELSE <<>>)
ZoneText(off) == IF off < 0 THEN <<"-">> \o ZoneDigits(0 - off) ELSE <<"+">> \o ZoneDigits(off)

\* The text of a timestamp string.  A string that has the shape of a
\* timestamp is held as the format it is written in, its wall-clock seconds
\* counted from 2025-01-01T00:00:00 and its UTC offset in seconds:
\*   frac_tz  2025-01-01T00:00:30.000+0000    tz     2025-01-01T00:00:20+0000
\*   frac     2025-01-01T00:00:05.000         naive  2025-01-01T00:00:10
\* and in any other format with a blank in the place of the T, which none of
\* the four strptime formats reads.
StampText(fmt, date, clock, zone) ==
    CASE fmt = "frac_tz" -> date \o <<"T">> \o clock \o <<".","0","0","0">> \o zone
      [] fmt = "tz"      -> date \o <<"T">> \o clock \o zone
      [] fmt = "frac"    -> date \o <<"T">> \o clock \o <<".","0","0","0">>
      [] fmt = "naive"   -> date \o <<"T">> \o clock
      [] OTHER           -> date \o <<" ">> \o clock
TimeText(ts) ==
    StampText(ts.fmt, DateText(739557 + ts.sec \div 86400), ClockText(ts.sec % 86400),
              ZoneText(ts.off))

\* str(value), also what an f-string prints, and repr(value).  str of a
\* string is itself, of a timestamp its text, of anything else its repr; repr
\* quotes a string or a timestamp, and writes the items of a dict in the
\* insertion order of its keys, each key quoted as a string is.
RECURSIVE StrOf(_)
RECURSIVE ReprOf(_)
RECURSIVE ReprJoin(_)
RECURSIVE ReprItems(_, _)
StrOf(x) ==
    CASE x.t = "str"  -> x.v
      [] x.t = "time" -> TimeText(x.v)
      [] OTHER        -> ReprOf(x)
ReprOf(x) ==
    CASE x.t \in {"str", "time"} -> ReprStr(StrOf(x))
      [] x.t = "list" -> <<"[">> \o ReprJoin(x.v) \o <<"]">>
      [] x.t = "dict" -> <<"{">> \o ReprItems(x.v, x.keys) \o <<"}">>
      [] OTHER        -> <<"N","o","n","e">>
ReprJoin(l) ==
    IF l = <<>> THEN <<>>
    ELSE IF Len(l) = 1 THEN ReprOf(l[1])
    ELSE ReprOf(l[1]) \o <<",", " ">> \o ReprJoin(Tail(l))
ReprItems(d, keys) ==
    IF keys = <<>> THEN <<>>
    ELSE ReprOf(JStr(CharsOf(Head(keys)))) \o <<":", " ">> \o ReprOf(d[Head(keys)])
         \o (IF Len(keys) = 1 THEN <<>> ELSE <<",", " ">> \o ReprItems(d, Tail(keys)))

\* one turn of the loop over the path segments; cur = JNone ends it with ""
PathStep(cur, p) ==
    CASE cur.t = "dict" -> DictGet(cur, p)
      [] cur.t = "list" -> IF cur.v # <<>> THEN cur.v[1] ELSE JNone
      [] OTHER          -> JNone

RECURSIVE PathWalk(_, _)
PathWalk(cur, parts) ==
    IF parts = <<>> THEN cur
    ELSE LET nxt == PathStep(cur, Head(parts))
         IN  IF nxt.t = "none" THEN JNone ELSE PathWalk(nxt, Tail(parts))

\* parts = [p for p in path.split(".") if p]; a path is held as its segments
PathParts(path) == SelectSeq(path, LAMBDA p : p # "")

\* _get_by_path(fields, path); the empty path string splits to <<"">>.  The
\* result is "" or str(cur), except where the walk ends on a dict: then it is
\* the dict's displayName or name as it stands, whatever its type.
get_by_path(fields, path) ==
    IF path = <<"">> \/ path = <<>> THEN JStr(<<>>)
    ELSE LET parts == PathParts(path)
             cur   == PathWalk(fields, parts)
         IN  CASE cur.t = "none" -> JStr(<<>>)
               [] cur.t = "dict" ->
                    IF Truthy(DictGet(cur, "displayName")) THEN DictGet(cur, "displayName")
                    ELSE IF Truthy(DictGet(cur, "name")) THEN DictGet(cur, "name")
                    ELSE JStr(<<>>)
               [] OTHER -> JStr(StrOf(cur))

\* `str(x) if x else d`: the text of a truthy value, d for a falsy one
TextOr(x, d) == IF Truthy(x) THEN StrOf(x) ELSE d

-----------------------------------------------------------------------------
(* config.py: load_config *)

NoConfig == [none |-> TRUE]

sToken == <<"t","o","k","e","n">>
sBasic == <<"b","a","s","i","c">>
sPost == <<"p","o","s","t">>
sInteractive == <<"i","n","t","e","r","a","c","t","i","v","e">>
sInfo == <<"I","N","F","O">>
sTwoColumns == <<"two_columns">>
sSingleColumn == <<"single_column">>
sThreeColumns == <<"three_columns">>
DefaultJql == <<"updated >= -1d ORDER BY updated DESC">>
DefaultQaPath == <<"assignee", "displayName">>
DefaultMapPath == <<"qa_map.json">>
sShanghai == <<"A","s","i","a","/","S","h","a","n","g","h","a","i">>
sDailyCron == <<"0"," ","9"," ","*"," ","*"," ","*">>

\* os.getenv(name, default)
GetEnv(e, name, default) == IF name \in DOMAIN e THEN e[name] ELSE default

\* get(name, required=True): the value is missing when unset or empty
Missing(e, name) == name \notin DOMAIN e \/ e[name] = <<>>

\* get_int(name, default)
ParsedOr(parsed, default) == IF parsed.ok THEN parsed.v ELSE default
get_int(e, name, default) ==
    IF name \in DOMAIN e THEN ParsedOr(ParseInt(e[name]), default) ELSE default

TrueWords == {<<"1">>, <<"t","r","u","e">>, <<"y","e","s">>, <<"y">>, <<"o","n">>}

\* get_bool(name, default)
get_bool(e, name, default) ==
    IF name \in DOMAIN e THEN Lower(Strip(e[name])) \in TrueWords ELSE default

\* auth_method = get("JIRA_AUTH_METHOD", "token").strip().lower()
AuthMethodLowerOnly(e) == Lower(GetEnv(e, "JIRA_AUTH_METHOD", sToken))
AuthMethod(e) == Lower(Strip(GetEnv(e, "JIRA_AUTH_METHOD", sToken)))

\* the credential pair that is required under the auth method
RequiredPair(method) ==
    IF method = sBasic THEN <<"JIRA_USERNAME", "JIRA_PASSWORD">>
    ELSE <<"JIRA_EMAIL", "JIRA_API_TOKEN">>

\* the required variables in the order load_config reads them
RequiredVars(e) ==
    RequiredPair(AuthMethod(e)) \o <<"JIRA_BASE_URL", "LARK_WEBHOOK_URL">>

\* load_config(): [ok |-> FALSE] stands for the ValueError naming the first
\* required variable that is missing
load_config(e) ==
    LET req  == RequiredVars(e)
        miss == {i \in 1..Len(req) : Missing(e, req[i])}
        auth == AuthMethod(e)
    IN  IF miss # {}
        THEN [ok |-> FALSE,
              missing |-> req[CHOOSE i \in miss : \A j \in miss : i <= j],
              cfg |-> NoConfig]
        ELSE [ok |-> TRUE,
              missing |-> "",
              cfg |-> [jira_base_url    |-> e["JIRA_BASE_URL"],
                       jira_email       |-> GetEnv(e, "JIRA_EMAIL", <<>>),
                       jira_api_token   |-> GetEnv(e, "JIRA_API_TOKEN", <<>>),
                       jira_username    |-> GetEnv(e, "JIRA_USERNAME", <<>>),
                       jira_password    |-> GetEnv(e, "JIRA_PASSWORD", <<>>),
                       auth_method      |-> auth,
                       api_version      |-> GetEnv(e, "JIRA_API_VERSION",
                                                   IF auth = sBasic THEN <<"2">> ELSE <<"3">>),
                       lark_webhook_url |-> e["LARK_WEBHOOK_URL"],
                       report_jql       |-> GetEnv(e, "REPORT_JQL", DefaultJql),
                       timezone         |-> GetEnv(e, "TIMEZONE", sShanghai),
                       report_cron      |-> GetEnv(e, "REPORT_CRON", sDailyCron),
                       log_level        |-> GetEnv(e, "LOG_LEVEL", sInfo),
                       message_type     |-> GetEnv(e, "MESSAGE_TYPE", sPost),
                       report_top_n     |-> get_int(e, "REPORT_TOP_N", 10),
                       max_results      |-> get_int(e, "MAX_RESULTS", 100),
                       enable_links     |-> get_bool(e, "ENABLE_LINKS", TRUE),
                       qa_field_path    |-> GetEnv(e, "QA_FIELD_PATH", DefaultQaPath),
                       env_field_path   |-> GetEnv(e, "ENV_FIELD_PATH", <<"">>),
                       at_qa_plain      |-> get_bool(e, "AT_QA_PLAIN", FALSE),
                       at_qa_mention    |-> get_bool(e, "AT_QA_MENTION", FALSE),
                       qa_map_path      |-> GetEnv(e, "QA_MAP_PATH", DefaultMapPath),
                       card_layout      |-> GetEnv(e, "CARD_LAYOUT", sTwoColumns),
                       show_limit       |-> get_int(e, "SHOW_LIMIT", 20)]]

-----------------------------------------------------------------------------
(* utils.py: setup_logger *)

sDebug == <<"D","E","B","U","G">>
sWarning == <<"W","A","R","N","I","N","G">>
sWarn == <<"W","A","R","N">>
sError == <<"E","R","R","O","R">>
sCritical == <<"C","R","I","T","I","C","A","L">>
sFatal == <<"F","A","T","A","L">>
sNotSet == <<"N","O","T","S","E","T">>

\* the level names logging accepts; any other string makes setLevel raise
LevelNames == {sInfo, sDebug, sWarning, sWarn, sError, sCritical, sFatal, sNotSet}

\* logger.setLevel(level): the number of a level name; the root logger at
\* NOTSET takes every record
LevelOf(name) ==
    CASE name \in {sCritical, sFatal} -> 50
      [] name = sError                -> 40
      [] name \in {sWarning, sWarn}   -> 30
      [] name = sInfo                 -> 20
      [] name = sDebug                -> 10
      [] OTHER                        -> 0

\* the level a record is logged at: logger.warning, logger.exception (which
\* logs at ERROR), logger.info
RecordLevel(rec) ==
    CASE rec \in {"warning:mention", "warning:map"} -> 30
      [] rec \in {"exception:fetch", "exception:push", "exception:fields"} -> 40
      [] OTHER -> 20

\* the records the loggers of the entry points create under the root level
\* that setup_logger set: those at or above it
Emit(level, records) ==
    SelectSeq(records, LAMBDA rec : RecordLevel(rec) >= LevelOf(level))

\* handlers one call of setup_logger attaches: a console and a file handler
HandlersPerSetup == 2

-----------------------------------------------------------------------------
(* jira_client.py: JiraClient.__init__ *)

NoClient == [none |-> TRUE]

\* `x or None` of the caller, then `not x` of the constructor
\* [ok |-> FALSE] stands for the ValueError of a missing credential pair
JiraClientInit(cfg) ==
    LET method == Lower(IF cfg.auth_method = <<>> THEN sToken ELSE cfg.auth_method)
        version == Strip(IF cfg.api_version = <<>> THEN <<"3">> ELSE cfg.api_version)
    IN  IF method = sBasic
        THEN IF cfg.jira_username = <<>> \/ cfg.jira_password = <<>>
             THEN [ok |-> FALSE, client |-> NoClient]
             ELSE [ok |-> TRUE,
                   client |-> [base_url |-> RStripSlash(cfg.jira_base_url),
                               auth |-> <<cfg.jira_username, cfg.jira_password>>,
                               api_version |-> version]]
        ELSE IF cfg.jira_email = <<>> \/ cfg.jira_api_token = <<>>
             THEN [ok |-> FALSE, client |-> NoClient]
             ELSE [ok |-> TRUE,
                   client |-> [base_url |-> RStripSlash(cfg.jira_base_url),
                               auth |-> <<cfg.jira_email, cfg.jira_api_token>>,
                               api_version |-> version]]

-----------------------------------------------------------------------------
(* The retry loops: JiraClient.search_issues, JiraClient.list_fields and    *)
(* LarkClient._post.  One HTTP attempt and one sleep are one step each.     *)

IdleCall == [op |-> "none", retries |-> 0, backoff |-> 0, attempt |-> 0,
             last_exc |-> 0, phase |-> "idle", sleeps |-> <<>>,
             raised |-> "", result |-> JNone]

\* default `retries` of the three operations, and their backoff factor
DefaultRetries == 3
DefaultBackoff == 1

\* entering `for attempt in range(1, retries + 1)`
NewCall(op, retries, backoff) ==
    [op |-> op, retries |-> retries, backoff |-> backoff, attempt |-> 1,
     last_exc |-> 0, phase |-> IF retries >= 1 THEN "try" ELSE "exit",
     sleeps |-> <<>>, raised |-> "", result |-> JNone]

\* the endpoint an operation talks to
Endpoint(op) == IF op = "_post" THEN "lark" ELSE "jira"

\* the exception handler of one attempt: remember the exception, and sleep
\* unless this was the last attempt
AttemptFailed(c) ==
    [c EXCEPT !.last_exc = c.attempt,
              !.phase = IF c.attempt < c.retries THEN "sleep" ELSE "exit"]

\* a successful attempt returns at once
AttemptSucceeded(c, body) == [c EXCEPT !.phase = "returned", !.result = body]

\* time.sleep(backoff * attempt), then the next turn of the loop
SleepDurationFlat(c) == c.backoff
SleepDuration(c) == c.backoff * c.attempt

AfterSleep(c) ==
    [c EXCEPT !.sleeps = Append(c.sleeps, SleepDuration(c)),
              !.attempt = c.attempt + 1,
              !.phase = IF c.attempt + 1 <= c.retries THEN "try" ELSE "exit"]

\* the code after the loop: search_issues and list_fields raise last_exc when
\* there is one and return [] otherwise; _post raises last_exc, and `raise None`
\* is a TypeError
AfterLoop(c) ==
    IF c.last_exc # 0
    THEN [c EXCEPT !.phase = "raised", !.raised = "last_exc"]
    ELSE IF c.op = "_post"
         THEN [c EXCEPT !.phase = "raised", !.raised = "TypeError"]
         ELSE [c EXCEPT !.phase = "returned", !.result = JList(<<>>)]

-----------------------------------------------------------------------------
(* Tracker responses *)

SeqsUpTo(S, n) == UNION {[1..k -> S] : k \in 0..n}

sAl == <<"A","l">>
sBo == <<"B","o">>
sMailA == <<"a","@","x">>
sMailB == <<"b","@","x">>

Ts(fmt, sec, off) == JTime([fmt |-> fmt, sec |-> sec, off |-> off])

MkIssue(key, assignee, prio, created, extra) ==
    JDict(<<<<"key", JStr(key)>>,
           <<"fields", JDict(<<<<"summary", JStr(<<"s">> \o key)>>,
                             <<"status", JDict(<<<<"name", JStr(<<"O","p","e","n">>)>>>>)>>,
                             <<"assignee", assignee>>,
                             <<"priority", prio>>,
                             <<"created", created>>,
                             <<"qa", extra>>>>)>>>>)

Person(name, email) == JDict(<<<<"displayName", JStr(name)>>, <<"emailAddress", JStr(email)>>>>)
Prio(name) == JDict(<<<<"name", JStr(name)>>>>)

\* an issue assigned to Al
IssueAl == MkIssue(<<"K","1">>, Person(sAl, sMailA), Prio(<<"P","1">>),
                   Ts("tz", 20, 0), JNone)
\* an issue whose assignee has no display name; the custom field names Bo
IssueBo == MkIssue(<<"K","2">>, Person(<<>>, sMailB), Prio(<<"P","0">>),
                   Ts("naive", 10, 0), JStr(sBo))
\* an unassigned issue
IssueNobody == MkIssue(<<"K","3">>, JNone, JNone, JNone, JNone)
\* an issue whose assignee is a bare string, not an object
IssueBareAssignee == MkIssue(<<"K","4">>, JStr(<<"z">>), Prio(<<"L","o","w">>),
                             Ts("bad", 0, 0), JNone)

\* an issue whose assignee holds a list as display name, and whose custom
\* field is an object that holds a list as name
IssueListName == MkIssue(<<"K","9">>,
                         JDict(<<<<"displayName", JList(<<JStr(sAl)>>)>>,
                                <<"emailAddress", JStr(sMailA)>>>>),
                         Prio(<<"P","2">>), JNone,
                         JDict(<<<<"name", JList(<<JStr(sBo)>>)>>>>))

\* an issue assigned to A', a name that sorts before Al: the apostrophe (39)
\* comes before every letter
sQuote == <<"A","'">>
sMailQ == <<"q","@","x">>
IssueQuote == MkIssue(<<"K","1","0">>, Person(sQuote, sMailQ), Prio(<<"P","1">>),
                      JNone, JNone)
\* an issue assigned to 李雷 (U+674E U+96F7), a name that sorts after every
\* ASCII name and after 未指派
sLiLei == <<"U+674E", "U+96F7">>
sMailL == <<"l","@","x">>
IssueLiLei == MkIssue(<<"K","1","1">>, Person(sLiLei, sMailL), Prio(<<"P","3">>),
                      JNone, JNone)

\* what the tracker may put in the `issues` array; JNone is a null entry
RunPool == {IssueAl, IssueBo, IssueNobody, IssueBareAssignee, IssueListName, JNone}
\* the responses that hold A' beside Al, in both orders
QuoteLists == {<<IssueQuote, IssueAl>>, <<IssueAl, IssueQuote>>}

\* what `data.get("issues", [])` hands back when the body holds no array
\* under that key: null, a string, an object
OddBodies == <<JNone, JStr(<<>>), JStr(<<"x">>), JDict(<<>>), JDict(<<<<"k", JNone>>>>)>>

\* entries of the field metadata: a field named Env, a second name under the
\* same id, another field, a field whose name is null, and a field whose name
\* holds a lone surrogate
Field(id, name) == JDict(<<<<"id", JStr(id)>>, <<"name", name>>>>)
FieldEnv == Field(<<"f","1">>, JStr(<<"E","n","v">>))
FieldSameId == Field(<<"f","1">>, JStr(<<"T","e","a","m">>))
FieldSummary == Field(<<"f","2">>, JStr(<<"S","u","m","m","a","r","y">>))
FieldNoName == Field(<<"f","3">>, JNone)
FieldSurrogate == Field(<<"f","4">>, JStr(<<"e","n","v","U+D800">>))

\* what list_fields may hand back: the parsed body, whatever it is
FieldLists ==
    {<<>>, <<FieldEnv>>, <<FieldSummary, FieldEnv>>, <<FieldEnv, FieldSameId>>,
     <<FieldNoName, FieldSummary>>, <<FieldSurrogate>>, <<FieldEnv, JStr(<<"x">>)>>}
OddFieldBodies == <<JNone, JDict(<<>>), JDict(<<<<"k", JNone>>>>), JStr(<<>>)>>

\* the value an operation's successful HTTP attempt hands back: search_issues
\* the value under `issues` of the body, list_fields and _post the body.
\* Responses holds the arrays among them, OtherResponses the rest.
Responses(op) ==
    CASE op = "search_issues" -> SeqsUpTo(RunPool, MaxIssues) \cup QuoteLists
      [] op = "list_fields"   -> FieldLists
      [] OTHER                -> {<<>>}
OtherResponses(op) ==
    CASE op = "search_issues" -> OddBodies
      [] op = "list_fields"   -> OddFieldBodies
      [] OTHER                -> <<JDict(<<>>)>>
\* the k-th other response, the array `l` for k = 0
ResponseOf(op, l, k) ==
    IF k = 0 THEN JList(l) ELSE OtherResponses(op)[k]

-----------------------------------------------------------------------------
(* Renderers, as far as run_once depends on them: which send operation the  *)
(* message type selects, and whether rendering raises on the fetched data.  *)

\* `x or {}`
OrEmptyDict(x) == IF Truthy(x) THEN x ELSE JDict(<<>>)

\* seq[:k] of Python: a negative k counts from the end
PySliceTo(s, k) ==
    IF k >= 0 THEN SubSeq(s, 1, Min(k, Len(s)))
    ELSE SubSeq(s, 1, Max(0, Len(s) + k))

\* what `for item in x` yields: the items of a list, the keys of an object,
\* the characters of a string
Entries(x) ==
    CASE x.t = "list" -> x.v
      [] x.t = "dict" -> [i \in 1..Len(x.keys) |-> JStr(CharsOf(x.keys[i]))]
      [] x.t \in {"str", "time"} -> [i \in 1..Len(StrOf(x)) |-> JStr(<<StrOf(x)[i]>>)]
      [] OTHER -> <<>>

\* issue.get(...) and fields.get(...) need mappings
IsDict(x) == x.t = "dict"
FieldsOf(issue) == OrEmptyDict(DictGet(issue, "fields"))
RowReadable(issue) == IsDict(issue) /\ IsDict(FieldsOf(issue))

\* format_text_report reads key, fields.summary and fields.status.name of the
\* first 10 issues
TextLimit == 10
TextRaises(iss) ==
    \E i \in 1..Min(TextLimit, Len(iss)) :
        \/ ~RowReadable(iss[i])
        \/ ~IsDict(OrEmptyDict(DictGet(FieldsOf(iss[i]), "status")))

\* `val or "未指派"`: the value one issue is counted under
CountedValue(issue, field_path) ==
    LET val == IF field_path = <<"">> \/ field_path = <<>> THEN JStr(<<>>)
               ELSE get_by_path(FieldsOf(issue), field_path)
    IN  IF Truthy(val) THEN val ELSE JStr(UNASSIGNED)

\* issue.get raises on an issue that is no mapping, counts[name] raises on a
\* name that is a list or a dict
SummarizeRaises(iss, field_path) ==
    \E i \in 1..Len(iss) :
        IF IsDict(iss[i]) THEN ~Hashable(CountedValue(iss[i], field_path)) ELSE TRUE

\* a str value: " ".join takes nothing else
IsStr(x) == x.t \in {"str", "time"}

\* " ".join([v for v in [priority, summary] if v]) of one row
JoinRaises(issue) ==
    LET priority == get_by_path(FieldsOf(issue), <<"priority", "name">>)
        summary  == DictGetOrEmpty(FieldsOf(issue), "summary")
    IN  \/ Truthy(priority) /\ ~IsStr(priority)
        \/ Truthy(summary) /\ ~IsStr(summary)

\* format_post_report aggregates over every issue, then renders the first top_n
PostRowRaises(issue) == IF RowReadable(issue) THEN JoinRaises(issue) ELSE TRUE
PostRaises(iss, top_n, qa_field_path) ==
    IF SummarizeRaises(iss, qa_field_path) THEN TRUE
    ELSE \E i \in 1..Len(PySliceTo(iss, top_n)) : PostRowRaises(iss[i])

\* a string that a strict UTF-8 encoder refuses holds a lone surrogate,
\* U+D800 to U+DFFF, which is held as the token of its code point
IsSurrogate(c) ==
    /\ Len(c) = 6
    /\ SubSeq(c, 1, 3) = "U+D"
    /\ InSeq(SubSeq(c, 4, 4), <<"8","9","A","B","C","D","E","F">>)
HasSurrogate(s) == \E i \in 1..Len(s) : IsSurrogate(s[i])

\* the collapse notice is added when issues_sorted[:show_limit] leaves
\* issues out; with jira_base_url and jql set it holds quote_plus(jql), which
\* encodes the query as UTF-8
NoticeRaises(n, show_limit, jira_base_url, jql) ==
    /\ n > Len(PySliceTo([i \in 1..n |-> i], show_limit))
    /\ jira_base_url # <<>>
    /\ jql # <<>>
    /\ HasSurrogate(jql)

\* build_interactive_card aggregates over and sorts every issue, then builds
\* the notice
CardRaises(iss, qa_field_path, show_limit, jira_base_url, jql) ==
    IF SummarizeRaises(iss, qa_field_path) THEN TRUE
    ELSE IF \E i \in 1..Len(iss) : ~RowReadable(iss[i]) THEN TRUE
    ELSE NoticeRaises(Len(iss), show_limit, jira_base_url, jql)

\* msg_type = config.message_type.lower(), then the if / elif / else
SendTextAlways(cfg) == "send_text"
PrimaryOp(cfg) ==
    LET msg_type == Lower(cfg.message_type)
    IN  IF msg_type = sPost THEN "send_post_content"
        ELSE IF msg_type = sInteractive THEN "send_interactive_card"
        ELSE "send_text"

\* the renderers on the value run_once fetched: format_text_report and
\* format_post_report take a slice of it, which an object does not have;
\* build_interactive_card iterates over it and slices the sorted list
RenderRaises(cfg, body) ==
    CASE PrimaryOp(cfg) = "send_post_content" ->
             IF Sliceable(body)
             THEN PostRaises(Entries(body), cfg.report_top_n, cfg.qa_field_path)
             ELSE TRUE
      [] PrimaryOp(cfg) = "send_interactive_card" ->
             CardRaises(Entries(body), cfg.qa_field_path, cfg.show_limit,
                        cfg.jira_base_url, cfg.report_jql)
      [] OTHER ->
             IF Sliceable(body) THEN TextRaises(Entries(body)) ELSE TRUE

-----------------------------------------------------------------------------
(* The mention pass of run_once *)

\* str < str: by code point, a proper prefix first
RECURSIVE StrLess(_, _)
StrLess(a, b) ==
    IF b = <<>> THEN FALSE
    ELSE IF a = <<>> THEN TRUE
    ELSE IF Ord(Head(a)) # Ord(Head(b)) THEN Ord(Head(a)) < Ord(Head(b))
    ELSE StrLess(Tail(a), Tail(b))

\* sorted(set of strings)
RECURSIVE SortedStrs(_)
SortedStrs(S) ==
    IF S = {} THEN <<>>
    ELSE LET m == CHOOSE x \in S : \A y \in S : ~StrLess(y, x)
         IN  <<m>> \o SortedStrs(S \ {m})

\* the mention map file: missing, not JSON, JSON that is no object (a list),
\* or a JSON object
MapMissing == [state |-> "missing", map |-> <<>>]
MapInvalid == [state |-> "invalid", map |-> <<>>]
MapNotObject == [state |-> "not_object", map |-> <<>>]
MapOf(f) == [state |-> "ok", map |-> f]

sU1 == <<"u","1">>
sU2 == <<"u","2">>
MapFiles == {MapMissing, MapInvalid, MapNotObject, MapOf(<<>>),
             MapOf(sAl :> sU1),
             MapOf(sAl :> sU1 @@ sMailA :> sU2 @@ sMailB :> sU1),
             MapOf(sBo :> <<>> @@ sMailB :> sU2),
             MapOf(sAl :> sU1 @@ sQuote :> sU2)}

\* json.load of the file; FileNotFoundError and any other error leave {}
LoadMapping(file) == IF file.state = "ok" THEN file.map ELSE <<>>

\* mapping.get raises on a value that json.load returned and is no dict; it is
\* called once there is a name or an e-mail to look up
ResolveRaises(file, names, emails) ==
    file.state = "not_object" /\ names \cup emails # {}

\* mapping.get(key) followed by `if uid:`
Resolves(mapping, key) == key \in DOMAIN mapping /\ mapping[key] # <<>>

\* the assignee object of an issue: `fields.get("assignee") or {}`
AssigneeOf(issue) == OrEmptyDict(DictGet(FieldsOf(issue), "assignee"))

\* the display name collected for one issue, "" when none: the assignee's
\* displayName as it stands, else the value at the custom path
NameOf(issue, qa_path) ==
    LET direct == DictGet(AssigneeOf(issue), "displayName")
    IN  IF Truthy(direct) THEN direct
        ELSE get_by_path(FieldsOf(issue), qa_path)

\* the assignee's emailAddress as it stands, "" when none
EmailOf(issue) ==
    LET e == DictGet(AssigneeOf(issue), "emailAddress")
    IN  IF Truthy(e) THEN e ELSE JStr(<<>>)

\* `if name and name != "未指派"`, `if email`: the values the loop adds
NameKept(issue, qa_path) ==
    LET name == NameOf(issue, qa_path)
    IN  Truthy(name) /\ (Hashable(name) => StrOf(name) # UNASSIGNED)
EmailKept(issue) == Truthy(EmailOf(issue))

\* the collecting loop raises on an issue or a fields value that is no
\* mapping, on an assignee that is no mapping, and where qa_names.add or
\* qa_emails.add is handed an unhashable value
CollectRaisesOn(issue, qa_path) ==
    IF ~RowReadable(issue) THEN TRUE
    ELSE IF ~IsDict(AssigneeOf(issue)) THEN TRUE
    ELSE IF NameKept(issue, qa_path) /\ ~Hashable(NameOf(issue, qa_path)) THEN TRUE
    ELSE EmailKept(issue) /\ ~Hashable(EmailOf(issue))
CollectRaises(iss, qa_path) == \E i \in 1..Len(iss) : CollectRaisesOn(iss[i], qa_path)

QaNames(iss, qa_path) ==
    {StrOf(NameOf(iss[i], qa_path)) : i \in {j \in 1..Len(iss) : NameKept(iss[j], qa_path)}}
QaEmails(iss) ==
    {StrOf(EmailOf(iss[i])) : i \in {j \in 1..Len(iss) : EmailKept(iss[j])}}

\* the loop stops at the first issue it raises on: the sets hold what the
\* issues before it gave, and the name of that issue when it is qa_emails.add
\* that raised
FirstRaising(iss, qa_path) ==
    CHOOSE i \in 1..Len(iss) :
        /\ CollectRaisesOn(iss[i], qa_path)
        /\ \A j \in 1..(i - 1) : ~CollectRaisesOn(iss[j], qa_path)
NameAddedFirst(issue, qa_path) ==
    IF RowReadable(issue)
    THEN IF IsDict(AssigneeOf(issue))
         THEN NameKept(issue, qa_path) /\ Hashable(NameOf(issue, qa_path))
         ELSE FALSE
    ELSE FALSE
NamesUpTo(iss, qa_path, stop) ==
    QaNames(SubSeq(iss, 1, stop - 1), qa_path)
        \cup (IF NameAddedFirst(iss[stop], qa_path)
              THEN {StrOf(NameOf(iss[stop], qa_path))} ELSE {})
EmailsUpTo(iss, stop) == QaEmails(SubSeq(iss, 1, stop - 1))

\* [u for u in user_ids if not (u in seen or seen.add(u))]
RECURSIVE Dedupe(_)
Dedupe(s) ==
    IF s = <<>> THEN <<>>
    ELSE LET r == Dedupe(SubSeq(s, 1, Len(s) - 1))
         IN  IF InSeq(s[Len(s)], r) THEN r ELSE Append(r, s[Len(s)])

\* the identifiers found by display name, then those found by e-mail
LookupAll(mapping, keys) ==
    LET hit == SelectSeq(keys, LAMBDA k : Resolves(mapping, k))
    IN  [i \in 1..Len(hit) |-> mapping[hit[i]]]

UserIds(mapping, names, emails) ==
    Dedupe(LookupAll(mapping, SortedStrs(names)) \o LookupAll(mapping, SortedStrs(emails)))

\* `failed` names the step of the pass that raised: "", "collect", "resolve"
\* or "send"
NoMention == [ran |-> FALSE, failed |-> "", names |-> {}, emails |-> {},
              file |-> MapMissing, user_ids |-> <<>>]

\* a send operation of LarkClient as run_once invokes it
PrimarySend(op) == [op |-> op, what |-> "report", ids |-> <<>>, names |-> <<>>]
MentionSend(ids) == [op |-> "send_post_content", what |-> "mention", ids |-> ids, names |-> <<>>]
PlainSend(names) == [op |-> "send_post_content", what |-> "plain", ids |-> <<>>, names |-> names]

\* the if / else at the end of the mention pass: the reminder to send, if any
ReminderPlainFirst(cfg, m) ==
    IF cfg.at_qa_plain /\ m.names # {} THEN <<PlainSend(SortedStrs(m.names))>>
    ELSE IF m.user_ids # <<>> THEN <<MentionSend(m.user_ids)>>
    ELSE <<>>
Reminder(cfg, m) ==
    IF m.user_ids # <<>> THEN <<MentionSend(m.user_ids)>>
    ELSE IF cfg.at_qa_plain /\ m.names # {} THEN <<PlainSend(SortedStrs(m.names))>>
    ELSE <<>>

-----------------------------------------------------------------------------
(* Environments *)

sUrl == <<"h","/">>
sHook == <<"w">>
sUser == <<"u">>
sPass == <<"p">>
sMail == <<"m">>
sTok == <<"k">>

With(e, name, val) == [x \in DOMAIN e \cup {name} |-> IF x = name THEN val ELSE e[x]]

EnvToken == [JIRA_BASE_URL |-> sUrl, LARK_WEBHOOK_URL |-> sHook,
             JIRA_EMAIL |-> sMail, JIRA_API_TOKEN |-> sTok]
EnvBasic == [JIRA_BASE_URL |-> sUrl, LARK_WEBHOOK_URL |-> sHook,
             JIRA_AUTH_METHOD |-> <<" ","B","a","s","i","c"," ">>,
             JIRA_USERNAME |-> sUser, JIRA_PASSWORD |-> sPass]
EnvCard == With(EnvToken, "MESSAGE_TYPE", <<"I","n","t","e","r","a","c","t","i","v","e">>)
EnvCardMention == With(EnvCard, "AT_QA_MENTION", <<"t","r","u","e">>)

\* a zone the database does not list, a cron expression of four fields, one
\* whose minute is out of range, and one that is read: every five minutes from
\* 8 to 18 on working days
sMars == <<"M","a","r","s","/","P","h","o","b","o","s">>
sFourFields == <<"0"," ","9"," ","*"," ","*">>
sMinuteSixty == <<"6","0"," ","9"," ","*"," ","*"," ","*">>
sWorkdays == <<"*","/","5"," ","8","-","1","8"," ","*"," ","*"," ","m","o","n","-","f","r","i">>

\* the environments the report entry points are started in
EnvPool ==
    { EnvToken,
      EnvBasic,
      With(EnvToken, "MESSAGE_TYPE", <<"t","e","x","t">>),
      With(EnvToken, "MESSAGE_TYPE", <<"c","a","r","d">>),
      With(EnvToken, "MESSAGE_TYPE", <<" ","p","o","s","t">>),
      With(EnvToken, "REPORT_TOP_N", <<"1">>),
      EnvCard,
      With(EnvCard, "AT_QA_PLAIN", <<"o","n">>),
      EnvCardMention,
      With(EnvCardMention, "AT_QA_PLAIN", <<" ","Y","e","s">>),
      With(With(EnvCardMention, "AT_QA_PLAIN", <<"1">>), "QA_FIELD_PATH", <<"qa">>),
      With(With(EnvCardMention, "AT_QA_PLAIN", <<"1">>), "QA_FIELD_PATH", <<"created">>),
      With(EnvToken, "LOG_LEVEL", <<"v","e","r","b","o","s","e">>),
      With(EnvCardMention, "LOG_LEVEL", sWarning),
      With(EnvToken, "LOG_LEVEL", sError),
      With(EnvToken, "LOG_LEVEL", sCritical),
      With(EnvToken, "JIRA_BASE_URL", <<>>),
      [JIRA_BASE_URL |-> sUrl, LARK_WEBHOOK_URL |-> sHook,
       JIRA_AUTH_METHOD |-> sBasic, JIRA_PASSWORD |-> sPass,
       JIRA_EMAIL |-> sMail, JIRA_API_TOKEN |-> sTok] }

\* the environments the scheduler is started in: one of each message type,
\* one for each way its start-up fails (a missing setting, a level name
\* setup_logger rejects, an unknown time zone, two cron expressions that
\* cannot be read), and one with a time zone and a cron expression of its
\* own.  run_once itself is started in every environment of EnvPool by
\* main.py.
SchedEnvs ==
    { EnvToken,
      With(EnvToken, "MESSAGE_TYPE", <<"t","e","x","t">>),
      With(EnvCardMention, "AT_QA_PLAIN", <<" ","Y","e","s">>),
      With(EnvToken, "LOG_LEVEL", <<"v","e","r","b","o","s","e">>),
      With(EnvCardMention, "LOG_LEVEL", sWarning),
      With(EnvToken, "JIRA_BASE_URL", <<>>),
      With(EnvToken, "TIMEZONE", sMars),
      With(EnvToken, "REPORT_CRON", sFourFields),
      With(EnvToken, "REPORT_CRON", sMinuteSixty),
      With(With(EnvToken, "TIMEZONE", <<"u","t","c">>), "REPORT_CRON", sWorkdays) }

\* the environments the diagnostics tool is started in
DumpEnvs ==
    { EnvToken,
      EnvBasic,
      With(EnvToken, "LOG_LEVEL", sError),
      With(EnvToken, "REPORT_JQL", <<"q","U+DC80">>),
      With(EnvToken, "JIRA_BASE_URL", <<>>) }

\* the environments an entry point is started in
EnvsOf(e) ==
    CASE e = "scheduler" -> SchedEnvs
      [] e = "dump"      -> DumpEnvs
      [] OTHER           -> EnvPool

\* every way of leaving unset, setting empty or setting the six required
\* variables, under each spelling of the auth method
AuthSpellings == {<<>>, sToken, sBasic, <<" ","B","a","s","i","c"," ">>,
                  <<"B","A","S","I","C">>, <<"b","a","s","i","c","2">>}
CredVars == {"JIRA_BASE_URL", "LARK_WEBHOOK_URL", "JIRA_EMAIL", "JIRA_API_TOKEN",
             "JIRA_USERNAME", "JIRA_PASSWORD"}
CredEnvs ==
    LET plain == UNION {[D -> {<<>>, <<"v">>}] : D \in SUBSET CredVars}
    IN  plain \cup {With(e, "JIRA_AUTH_METHOD", a) : e \in plain, a \in AuthSpellings}

\* complete environments under every spelling of the auth method, with
\* JIRA_API_VERSION set to a version, to a padded version or to nothing, and
\* credentials that are blank but not empty
ApiVersions == {<<>>, <<"2">>, <<"3">>, <<" ","2"," ">>, <<"l","a","t","e","s","t">>}
VersionEnvs ==
    LET both == [JIRA_BASE_URL |-> sUrl, LARK_WEBHOOK_URL |-> sHook,
                 JIRA_EMAIL |-> sMail, JIRA_API_TOKEN |-> sTok,
                 JIRA_USERNAME |-> sUser, JIRA_PASSWORD |-> sPass]
        creds == {both, EnvToken, EnvBasic, With(both, "JIRA_USERNAME", <<" ">>),
                  With(both, "JIRA_API_TOKEN", <<" ">>)}
    IN  {With(With(e, "JIRA_AUTH_METHOD", a), "JIRA_API_VERSION", v) :
            e \in creds, a \in AuthSpellings, v \in ApiVersions}

-----------------------------------------------------------------------------
(* scheduler.py: the time zone and the cron trigger of the job.             *)
(* pytz.timezone and CronTrigger.from_crontab are library code: a zone is   *)
(* known when the zone database (release 2023c) lists it, a cron expression *)
(* is read by the rules of APScheduler 3.                                   *)

\* the characters of a string as one name
RECURSIVE JoinChars(_)
JoinChars(s) == IF s = <<>> THEN "" ELSE Head(s) \o JoinChars(Tail(s))

\* str.replace(old, new)
RECURSIVE Replace(_, _, _)
Replace(s, old, new) ==
    IF Len(s) < Len(old) THEN s
    ELSE IF SubSeq(s, 1, Len(old)) = old
         THEN new \o Replace(SubSeq(s, Len(old) + 1, Len(s)), old, new)
         ELSE <<Head(s)>> \o Replace(Tail(s), old, new)

\* the zone names of the database, lower-cased: the lookup ignores case
ZoneNames ==
    {"africa/abidjan", "africa/accra", "africa/addis_ababa",
     "africa/algiers", "africa/asmara", "africa/asmera", "africa/bamako",
     "africa/bangui", "africa/banjul", "africa/bissau", "africa/blantyre",
     "africa/brazzaville", "africa/bujumbura", "africa/cairo",
     "africa/casablanca", "africa/ceuta", "africa/conakry", "africa/dakar",
     "africa/dar_es_salaam", "africa/djibouti", "africa/douala",
     "africa/el_aaiun", "africa/freetown", "africa/gaborone",
     "africa/harare", "africa/johannesburg", "africa/juba", "africa/kampala",
     "africa/khartoum", "africa/kigali", "africa/kinshasa", "africa/lagos",
     "africa/libreville", "africa/lome", "africa/luanda",
     "africa/lubumbashi", "africa/lusaka", "africa/malabo", "africa/maputo",
     "africa/maseru", "africa/mbabane", "africa/mogadishu",
     "africa/monrovia", "africa/nairobi", "africa/ndjamena", "africa/niamey",
     "africa/nouakchott", "africa/ouagadougou", "africa/porto-novo",
     "africa/sao_tome", "africa/timbuktu", "africa/tripoli", "africa/tunis",
     "africa/windhoek", "america/adak", "america/anchorage",
     "america/anguilla", "america/antigua", "america/araguaina",
     "america/argentina/buenos_aires", "america/argentina/catamarca",
     "america/argentina/comodrivadavia", "america/argentina/cordoba",
     "america/argentina/jujuy", "america/argentina/la_rioja",
     "america/argentina/mendoza", "america/argentina/rio_gallegos",
     "america/argentina/salta", "america/argentina/san_juan",
     "america/argentina/san_luis", "america/argentina/tucuman",
     "america/argentina/ushuaia", "america/aruba", "america/asuncion",
     "america/atikokan", "america/atka", "america/bahia",
     "america/bahia_banderas", "america/barbados", "america/belem",
     "america/belize", "america/blanc-sablon", "america/boa_vista",
     "america/bogota", "america/boise", "america/buenos_aires",
     "america/cambridge_bay", "america/campo_grande", "america/cancun",
     "america/caracas", "america/catamarca", "america/cayenne",
     "america/cayman", "america/chicago", "america/chihuahua",
     "america/ciudad_juarez", "america/coral_harbour", "america/cordoba",
     "america/costa_rica", "america/creston", "america/cuiaba",
     "america/curacao", "america/danmarkshavn", "america/dawson",
     "america/dawson_creek", "america/denver", "america/detroit",
     "america/dominica", "america/edmonton", "america/eirunepe",
     "america/el_salvador", "america/ensenada", "america/fort_nelson",
     "america/fort_wayne", "america/fortaleza", "america/glace_bay",
     "america/godthab", "america/goose_bay", "america/grand_turk",
     "america/grenada", "america/guadeloupe", "america/guatemala",
     "america/guayaquil", "america/guyana", "america/halifax",
     "america/havana", "america/hermosillo", "america/indiana/indianapolis",
     "america/indiana/knox", "america/indiana/marengo",
     "america/indiana/petersburg", "america/indiana/tell_city",
     "america/indiana/vevay", "america/indiana/vincennes",
     "america/indiana/winamac", "america/indianapolis", "america/inuvik",
     "america/iqaluit", "america/jamaica", "america/jujuy", "america/juneau",
     "america/kentucky/louisville", "america/kentucky/monticello",
     "america/knox_in", "america/kralendijk", "america/la_paz",
     "america/lima", "america/los_angeles", "america/louisville",
     "america/lower_princes", "america/maceio", "america/managua",
     "america/manaus", "america/marigot", "america/martinique",
     "america/matamoros", "america/mazatlan", "america/mendoza",
     "america/menominee", "america/merida", "america/metlakatla",
     "america/mexico_city", "america/miquelon", "america/moncton",
     "america/monterrey", "america/montevideo", "america/montreal",
     "america/montserrat", "america/nassau", "america/new_york",
     "america/nipigon", "america/nome", "america/noronha",
     "america/north_dakota/beulah", "america/north_dakota/center",
     "america/north_dakota/new_salem", "america/nuuk", "america/ojinaga",
     "america/panama", "america/pangnirtung", "america/paramaribo",
     "america/phoenix", "america/port-au-prince", "america/port_of_spain",
     "america/porto_acre", "america/porto_velho", "america/puerto_rico",
     "america/punta_arenas", "america/rainy_river", "america/rankin_inlet",
     "america/recife", "america/regina", "america/resolute",
     "america/rio_branco", "america/rosario", "america/santa_isabel",
     "america/santarem", "america/santiago", "america/santo_domingo",
     "america/sao_paulo", "america/scoresbysund", "america/shiprock",
     "america/sitka", "america/st_barthelemy", "america/st_johns",
     "america/st_kitts", "america/st_lucia", "america/st_thomas",
     "america/st_vincent", "america/swift_current", "america/tegucigalpa",
     "america/thule", "america/thunder_bay", "america/tijuana",
     "america/toronto", "america/tortola", "america/vancouver",
     "america/virgin", "america/whitehorse", "america/winnipeg",
     "america/yakutat", "america/yellowknife", "antarctica/casey",
     "antarctica/davis", "antarctica/dumontdurville", "antarctica/macquarie",
     "antarctica/mawson", "antarctica/mcmurdo", "antarctica/palmer",
     "antarctica/rothera", "antarctica/south_pole", "antarctica/syowa",
     "antarctica/troll", "antarctica/vostok", "arctic/longyearbyen",
     "asia/aden", "asia/almaty", "asia/amman", "asia/anadyr", "asia/aqtau",
     "asia/aqtobe", "asia/ashgabat", "asia/ashkhabad", "asia/atyrau",
     "asia/baghdad", "asia/bahrain", "asia/baku", "asia/bangkok",
     "asia/barnaul", "asia/beirut", "asia/bishkek", "asia/brunei",
     "asia/calcutta", "asia/chita", "asia/choibalsan", "asia/chongqing",
     "asia/chungking", "asia/colombo", "asia/dacca", "asia/damascus",
     "asia/dhaka", "asia/dili", "asia/dubai", "asia/dushanbe",
     "asia/famagusta", "asia/gaza", "asia/harbin", "asia/hebron",
     "asia/ho_chi_minh", "asia/hong_kong", "asia/hovd", "asia/irkutsk",
     "asia/istanbul", "asia/jakarta", "asia/jayapura", "asia/jerusalem",
     "asia/kabul", "asia/kamchatka", "asia/karachi", "asia/kashgar",
     "asia/kathmandu", "asia/katmandu", "asia/khandyga", "asia/kolkata",
     "asia/krasnoyarsk", "asia/kuala_lumpur", "asia/kuching", "asia/kuwait",
     "asia/macao", "asia/macau", "asia/magadan", "asia/makassar",
     "asia/manila", "asia/muscat", "asia/nicosia", "asia/novokuznetsk",
     "asia/novosibirsk", "asia/omsk", "asia/oral", "asia/phnom_penh",
     "asia/pontianak", "asia/pyongyang", "asia/qatar", "asia/qostanay",
     "asia/qyzylorda", "asia/rangoon", "asia/riyadh", "asia/saigon",
     "asia/sakhalin", "asia/samarkand", "asia/seoul", "asia/shanghai",
     "asia/singapore", "asia/srednekolymsk", "asia/taipei", "asia/tashkent",
     "asia/tbilisi", "asia/tehran", "asia/tel_aviv", "asia/thimbu",
     "asia/thimphu", "asia/tokyo", "asia/tomsk", "asia/ujung_pandang",
     "asia/ulaanbaatar", "asia/ulan_bator", "asia/urumqi", "asia/ust-nera",
     "asia/vientiane", "asia/vladivostok", "asia/yakutsk", "asia/yangon",
     "asia/yekaterinburg", "asia/yerevan", "atlantic/azores",
     "atlantic/bermuda", "atlantic/canary", "atlantic/cape_verde",
     "atlantic/faeroe", "atlantic/faroe", "atlantic/jan_mayen",
     "atlantic/madeira", "atlantic/reykjavik", "atlantic/south_georgia",
     "atlantic/st_helena", "atlantic/stanley", "australia/act",
     "australia/adelaide", "australia/brisbane", "australia/broken_hill",
     "australia/canberra", "australia/currie", "australia/darwin",
     "australia/eucla", "australia/hobart", "australia/lhi",
     "australia/lindeman", "australia/lord_howe", "australia/melbourne",
     "australia/nsw", "australia/north", "australia/perth",
     "australia/queensland", "australia/south", "australia/sydney",
     "australia/tasmania", "australia/victoria", "australia/west",
     "australia/yancowinna", "brazil/acre", "brazil/denoronha",
     "brazil/east", "brazil/west", "cet", "cst6cdt", "canada/atlantic",
     "canada/central", "canada/eastern", "canada/mountain",
     "canada/newfoundland", "canada/pacific", "canada/saskatchewan",
     "canada/yukon", "chile/continental", "chile/easterisland", "cuba",
     "eet", "est", "est5edt", "egypt", "eire", "etc/gmt", "etc/gmt+0",
     "etc/gmt+1", "etc/gmt+10", "etc/gmt+11", "etc/gmt+12", "etc/gmt+2",
     "etc/gmt+3", "etc/gmt+4", "etc/gmt+5", "etc/gmt+6", "etc/gmt+7",
     "etc/gmt+8", "etc/gmt+9", "etc/gmt-0", "etc/gmt-1", "etc/gmt-10",
     "etc/gmt-11", "etc/gmt-12", "etc/gmt-13", "etc/gmt-14", "etc/gmt-2",
     "etc/gmt-3", "etc/gmt-4", "etc/gmt-5", "etc/gmt-6", "etc/gmt-7",
     "etc/gmt-8", "etc/gmt-9", "etc/gmt0", "etc/greenwich", "etc/uct",
     "etc/utc", "etc/universal", "etc/zulu", "europe/amsterdam",
     "europe/andorra", "europe/astrakhan", "europe/athens", "europe/belfast",
     "europe/belgrade", "europe/berlin", "europe/bratislava",
     "europe/brussels", "europe/bucharest", "europe/budapest",
     "europe/busingen", "europe/chisinau", "europe/copenhagen",
     "europe/dublin", "europe/gibraltar", "europe/guernsey",
     "europe/helsinki", "europe/isle_of_man", "europe/istanbul",
     "europe/jersey", "europe/kaliningrad", "europe/kiev", "europe/kirov",
     "europe/kyiv", "europe/lisbon", "europe/ljubljana", "europe/london",
     "europe/luxembourg", "europe/madrid", "europe/malta",
     "europe/mariehamn", "europe/minsk", "europe/monaco", "europe/moscow",
     "europe/nicosia", "europe/oslo", "europe/paris", "europe/podgorica",
     "europe/prague", "europe/riga", "europe/rome", "europe/samara",
     "europe/san_marino", "europe/sarajevo", "europe/saratov",
     "europe/simferopol", "europe/skopje", "europe/sofia",
     "europe/stockholm", "europe/tallinn", "europe/tirane",
     "europe/tiraspol", "europe/ulyanovsk", "europe/uzhgorod",
     "europe/vaduz", "europe/vatican", "europe/vienna", "europe/vilnius",
     "europe/volgograd", "europe/warsaw", "europe/zagreb",
     "europe/zaporozhye", "europe/zurich", "gb", "gb-eire", "gmt", "gmt+0",
     "gmt-0", "gmt0", "greenwich", "hst", "hongkong", "iceland",
     "indian/antananarivo", "indian/chagos", "indian/christmas",
     "indian/cocos", "indian/comoro", "indian/kerguelen", "indian/mahe",
     "indian/maldives", "indian/mauritius", "indian/mayotte",
     "indian/reunion", "iran", "israel", "jamaica", "japan", "kwajalein",
     "libya", "met", "mst", "mst7mdt", "mexico/bajanorte", "mexico/bajasur",
     "mexico/general", "nz", "nz-chat", "navajo", "prc", "pst8pdt",
     "pacific/apia", "pacific/auckland", "pacific/bougainville",
     "pacific/chatham", "pacific/chuuk", "pacific/easter", "pacific/efate",
     "pacific/enderbury", "pacific/fakaofo", "pacific/fiji",
     "pacific/funafuti", "pacific/galapagos", "pacific/gambier",
     "pacific/guadalcanal", "pacific/guam", "pacific/honolulu",
     "pacific/johnston", "pacific/kanton", "pacific/kiritimati",
     "pacific/kosrae", "pacific/kwajalein", "pacific/majuro",
     "pacific/marquesas", "pacific/midway", "pacific/nauru", "pacific/niue",
     "pacific/norfolk", "pacific/noumea", "pacific/pago_pago",
     "pacific/palau", "pacific/pitcairn", "pacific/pohnpei",
     "pacific/ponape", "pacific/port_moresby", "pacific/rarotonga",
     "pacific/saipan", "pacific/samoa", "pacific/tahiti", "pacific/tarawa",
     "pacific/tongatapu", "pacific/truk", "pacific/wake", "pacific/wallis",
     "pacific/yap", "poland", "portugal", "roc", "rok", "singapore",
     "turkey", "uct", "us/alaska", "us/aleutian", "us/arizona", "us/central",
     "us/east-indiana", "us/eastern", "us/hawaii", "us/indiana-starke",
     "us/michigan", "us/mountain", "us/pacific", "us/samoa", "utc",
     "universal", "w-su", "wet", "zulu"}

\* zone.replace('_plus_', '+').replace('_minus_', '-')
Unmunge(zone) ==
    Replace(Replace(zone, <<"_","p","l","u","s","_">>, <<"+">>),
            <<"_","m","i","n","u","s","_">>, <<"-">>)

IsAscii(s) == \A i \in 1..Len(s) : Ord(s[i]) < 128

\* pytz.timezone(zone) returns: UTC in any case, else an ASCII name of the
\* database; every other name raises UnknownTimeZoneError
KnownZone(zone) ==
    IF Upper(zone) = <<"U","T","C">> THEN TRUE
    ELSE IF IsAscii(zone) THEN JoinChars(Lower(Unmunge(zone))) \in ZoneNames
    ELSE FALSE

\* str.split(): the maximal runs of characters that are no whitespace
RECURSIVE SplitWords(_)
SplitWords(s) ==
    IF s = <<>> THEN <<>>
    ELSE IF IsSpace(Head(s)) THEN SplitWords(Tail(s))
    ELSE LET n == CHOOSE k \in 1..Len(s) :
                      /\ \A i \in 1..k : ~IsSpace(s[i])
                      /\ (k = Len(s) \/ IsSpace(s[k + 1]))
         IN  <<SubSeq(s, 1, n)>> \o SplitWords(SubSeq(s, n + 1, Len(s)))

\* s.split(c): the pieces between the occurrences of c, empty ones included
RECURSIVE SplitAt(_, _)
SplitAt(s, c) ==
    IF ~InSeq(c, s) THEN <<s>>
    ELSE <<SubSeq(s, 1, IndexOf(c, s) - 1)>>
         \o SplitAt(SubSeq(s, IndexOf(c, s) + 1, Len(s)), c)

\* the five fields of a crontab expression, and the values each may hold
CronFields == <<"minute", "hour", "day", "month", "day_of_week">>
MinValues == [minute |-> 0, hour |-> 0, day |-> 1, month |-> 1, day_of_week |-> 0]
MaxValues == [minute |-> 59, hour |-> 23, day |-> 31, month |-> 12, day_of_week |-> 6]
MonthNames == <<"jan", "feb", "mar", "apr", "may", "jun", "jul", "aug", "sep",
                "oct", "nov", "dec">>
WeekdayNames == <<"mon", "tue", "wed", "thu", "fri", "sat", "sun">>

\* int() of a run of digits, capped above every value a field may hold
CronCap == 10000
RECURSIVE CappedValue(_)
CappedValue(s) ==
    IF s = <<>> THEN 0
    ELSE Min(CronCap, CappedValue(SubSeq(s, 1, Len(s) - 1)) * 10 + DigitVal(s[Len(s)]))

\* \d+ of a str pattern
AllDigits(s) == s # <<>> /\ \A i \in 1..Len(s) : IsDigit(s[i])

\* [a-z] under IGNORECASE: the ASCII letters and U+0130, U+0131, U+017F, U+212A
IsCronLetter(c) ==
    \/ Ord(c) \in 65..90
    \/ Ord(c) \in 97..122
    \/ Ord(c) \in {304, 305, 383, 8490}

\* the length of the run of letters a string begins with
LetterRun(s) ==
    IF s = <<>> THEN 0
    ELSE IF ~IsCronLetter(s[1]) THEN 0
    ELSE CHOOSE k \in 1..Len(s) :
             /\ \A i \in 1..k : IsCronLetter(s[i])
             /\ (k = Len(s) \/ ~IsCronLetter(s[k + 1]))

\* the part of an expression before its first "/", and the part after it
BeforeSlash(p) == IF InSeq("/", p) THEN SubSeq(p, 1, IndexOf("/", p) - 1) ELSE p
AfterSlash(p) == SubSeq(p, IndexOf("/", p) + 1, Len(p))
BeforeDash(p) == IF InSeq("-", p) THEN SubSeq(p, 1, IndexOf("-", p) - 1) ELSE p
AfterDash(p) == SubSeq(p, IndexOf("-", p) + 1, Len(p))

\* the step of an expression: at least 1 and within the span of the field
StepValid(step, lo, hi) == AllDigits(step) /\ CappedValue(step) >= 1
                           /\ CappedValue(step) <= hi - lo

\* AllExpression: "*" or "*/step"
AllValid(p, lo, hi) ==
    IF p = <<"*">> THEN TRUE
    ELSE /\ BeforeSlash(p) = <<"*">>
         /\ InSeq("/", p)
         /\ StepValid(AfterSlash(p), lo, hi)

\* `(self.last or MAX_VALUES[field_name]) - self.first`
ValueRange(first, last, hi) == (IF last = 0 THEN hi ELSE last) - first

\* RangeExpression on its numbers: first, first-last, first/step and
\* first-last/step; a first value alone is its own last value
RangeOfNumbers(first, has_last, last, has_step, step, lo, hi) ==
    /\ has_step => step >= 1 /\ step <= hi - lo
    /\ has_last => first <= last
    /\ first >= lo
    /\ has_last => last <= hi
    /\ ~has_last /\ ~has_step => first <= hi
    /\ has_step => step <= ValueRange(first, IF has_last THEN last ELSE 0, hi)

RangeValid(p, lo, hi) ==
    /\ AllDigits(BeforeDash(BeforeSlash(p)))
    /\ InSeq("-", BeforeSlash(p)) => AllDigits(AfterDash(BeforeSlash(p)))
    /\ InSeq("/", p) => AllDigits(AfterSlash(p))
    /\ RangeOfNumbers(CappedValue(BeforeDash(BeforeSlash(p))),
                      InSeq("-", BeforeSlash(p)),
                      CappedValue(AfterDash(BeforeSlash(p))),
                      InSeq("/", p),
                      CappedValue(AfterSlash(p)), lo, hi)

\* MonthRangeExpression and WeekdayRangeExpression: a name, or name-name; the
\* pattern is matched at the start of the expression and what follows it is
\* not read
NameValid(p, names) ==
    LET n == LetterRun(p)
        rest == SubSeq(p, n + 2, Len(p))
        m == LetterRun(rest)
        has_last == n + 1 <= Len(p) /\ p[n + 1] = "-" /\ m > 0
    IN  /\ n > 0
        /\ InSeq(JoinChars(Lower(SubSeq(p, 1, n))), names)
        /\ has_last =>
              /\ InSeq(JoinChars(Lower(SubSeq(rest, 1, m))), names)
              /\ IndexOf(JoinChars(Lower(SubSeq(p, 1, n))), names)
                     <= IndexOf(JoinChars(Lower(SubSeq(rest, 1, m))), names)

\* LastDayOfMonthExpression: the expression begins with "last" in any case
\* (under IGNORECASE U+017F is an s)
LastValid(p) ==
    /\ Len(p) >= 4
    /\ p[1] \in {"l", "L"}
    /\ p[2] \in {"a", "A"}
    /\ p[3] \in {"s", "S", "U+017F"}
    /\ p[4] \in {"t", "T"}

\* one expression of a field: the compilers of the field in their order
ExpressionValid(p, field) ==
    IF p # <<>> /\ Head(p) = "*" THEN AllValid(p, MinValues[field], MaxValues[field])
    ELSE IF p # <<>> /\ IsDigit(Head(p)) THEN RangeValid(p, MinValues[field], MaxValues[field])
    ELSE CASE field = "month"       -> NameValid(p, MonthNames)
           [] field = "day_of_week" -> NameValid(p, WeekdayNames)
           [] field = "day"         -> LastValid(p)
           [] OTHER                 -> FALSE

\* a field: its expressions, separated by commas
FieldValid(f, field) ==
    \A i \in 1..Len(SplitAt(f, ",")) : ExpressionValid(SplitAt(f, ",")[i], field)

\* CronTrigger.from_crontab(expr) returns: five fields, each one valid;
\* otherwise it raises ValueError
from_crontab(expr) ==
    /\ Len(SplitWords(expr)) = 5
    /\ \A i \in 1..5 : FieldValid(SplitWords(expr)[i], CronFields[i])

-----------------------------------------------------------------------------
(* The entry points: run_once (main.py), main (scheduler.py), run_dump     *)

NoNet == [jira |-> 0, lark |-> 0]

\* an exception leaves the entry point: the process of main.py or dump_jira.py
\* ends; the scheduler's executor logs a job's exception and keeps running
Propagate(exc) ==
    /\ escaped' = exc
    /\ outcome' = "crashed"
    /\ IF entry = "scheduler"
       THEN pc' = "waiting" /\ runs' = runs + 1
       ELSE pc' = "exit" /\ UNCHANGED runs

\* run_once: config = load_config()
LoadConfigEnds(r) ==
    IF r.ok
    THEN /\ config' = r.cfg
         /\ pc' = "logger"
         /\ UNCHANGED <<escaped, outcome, runs>>
    ELSE /\ Propagate("MissingConfiguration")
         /\ UNCHANGED config
LoadConfigStep ==
    /\ pc = "load"
    /\ LoadConfigEnds(load_config(env))
    /\ UNCHANGED <<env, entry, jira, issues, fields_meta, call, net, sends, mention, log,
                   handlers, inp, out>>

\* setup_logger(level=config.log_level): setLevel raises on an unknown level
\* name before any handler is attached; otherwise the root level is the one
\* config.log_level names, which Emit applies to every record from here on,
\* and the two handlers are attached
SetupLoggerStep ==
    /\ pc = "logger"
    /\ IF config.log_level \in LevelNames
       THEN /\ handlers' = handlers + HandlersPerSetup
            /\ pc' = "client"
            /\ UNCHANGED <<escaped, outcome, runs>>
       ELSE /\ Propagate("UnknownLevel")
            /\ UNCHANGED handlers
    /\ UNCHANGED <<env, entry, config, jira, issues, fields_meta, call, net, sends, mention,
                   log, inp, out>>

\* jira = JiraClient(...), then the first tracker call of the entry point.
\* run_once and run_once_card log their start before the constructor runs,
\* run_dump after it returned.
ConstructClientStep ==
    /\ pc = "client"
    /\ LET r == JiraClientInit(config)
       IN  IF r.ok
           THEN /\ jira' = r.client
                /\ call' = NewCall(IF entry = "dump" THEN "list_fields" ELSE "search_issues",
                                   DefaultRetries, DefaultBackoff)
                /\ pc' = IF entry = "dump" THEN "dump_fields" ELSE "searching"
                /\ log' = log \o Emit(config.log_level, <<"info:start">>)
                /\ UNCHANGED <<escaped, outcome, runs>>
           ELSE /\ Propagate("InvalidCredentials")
                /\ log' = IF entry = "dump" THEN log
                          ELSE log \o Emit(config.log_level, <<"info:start">>)
                /\ UNCHANGED <<jira, call>>
    /\ UNCHANGED <<env, entry, config, issues, fields_meta, net, sends, mention, handlers, inp, out>>

\* one HTTP request of the retry loop in progress
HttpAttempt ==
    /\ call.phase = "try"
    /\ \E ok \in BOOLEAN :
          IF ok
          THEN \E l \in Responses(call.op) :
                  \E k \in 0..(IF l = <<>> THEN Len(OtherResponses(call.op)) ELSE 0) :
                      call' = AttemptSucceeded(call, ResponseOf(call.op, l, k))
          ELSE call' = AttemptFailed(call)
    /\ net' = [net EXCEPT ![Endpoint(call.op)] = @ + 1]
    /\ UNCHANGED <<env, entry, pc, config, jira, issues, fields_meta, sends, mention, log,
                   outcome, escaped, runs, handlers, inp, out>>

\* time.sleep between two attempts
Sleep ==
    /\ call.phase = "sleep"
    /\ call' = AfterSleep(call)
    /\ UNCHANGED <<env, entry, pc, config, jira, issues, fields_meta, net, sends, mention, log,
                   outcome, escaped, runs, handlers, inp, out>>

\* the loop is over without a return
LoopExit ==
    /\ call.phase = "exit"
    /\ call' = AfterLoop(call)
    /\ UNCHANGED <<env, entry, pc, config, jira, issues, fields_meta, net, sends, mention, log,
                   outcome, escaped, runs, handlers, inp, out>>

CallOver == call.phase \in {"returned", "raised"}

\* `except Exception` around search_issues and the len() of its result:
\* logger.exception, return; `bound` is what the name `issues` holds by then
FetchFailureContinues(bound) ==
    /\ log' = log \o Emit(config.log_level, <<"exception:fetch">>)
    /\ outcome' = "fetch_failed"
    /\ issues' = JList(<<>>)
    /\ pc' = IF entry = "card" THEN "card_render" ELSE "render"
OnFetchFailed(bound) ==
    /\ log' = log \o Emit(config.log_level, <<"exception:fetch">>)
    /\ outcome' = "fetch_failed"
    /\ pc' = "done"
    /\ issues' = bound

\* run_once and run_once_card after search_issues returned or raised: a
\* returned value that has no len() ends the invocation as a raised call does
AfterSearch ==
    /\ pc = "searching"
    /\ CallOver
    /\ IF call.phase = "raised" THEN OnFetchFailed(issues)
       ELSE IF Sized(call.result)
            THEN /\ issues' = call.result
                 /\ log' = log \o Emit(config.log_level, <<"info:fetched">>)
                 /\ pc' = IF entry = "card" THEN "card_render" ELSE "render"
                 /\ UNCHANGED outcome
            ELSE OnFetchFailed(call.result)
    /\ call' = IdleCall
    /\ UNCHANGED <<env, entry, config, jira, fields_meta, net, sends, mention,
                   escaped, runs, handlers, inp, out>>

\* the outer `except Exception`: logger.exception, run_once returns
PushFailurePropagates ==
    /\ Propagate("PushError")
    /\ UNCHANGED log
OnPushFailed ==
    /\ log' = log \o Emit(config.log_level, <<"exception:push">>)
    /\ outcome' = "push_failed"
    /\ pc' = "done"
    /\ UNCHANGED <<escaped, runs>>

\* the last statement of the outer try: logger.info("报告已推送 ...")
Delivered(records) ==
    /\ log' = log \o Emit(config.log_level, records \o <<"info:pushed">>)
    /\ outcome' = "delivered"
    /\ pc' = "done"
    /\ UNCHANGED <<escaped, runs>>

\* render the message of the selected type and invoke its send operation
Render ==
    /\ pc = "render"
    /\ IF RenderRaises(config, issues)
       THEN /\ OnPushFailed
            /\ UNCHANGED <<sends, call>>
       ELSE /\ sends' = Append(sends, PrimarySend(PrimaryOp(config)))
            /\ call' = NewCall("_post", DefaultRetries, DefaultBackoff)
            /\ pc' = "sending"
            /\ UNCHANGED <<log, outcome, escaped, runs>>
    /\ UNCHANGED <<env, entry, config, jira, issues, fields_meta, net, mention, handlers, inp, out>>

\* run_once after the primary send returned or raised
AfterPrimarySend ==
    /\ pc = "sending"
    /\ CallOver
    /\ IF call.phase = "raised" THEN OnPushFailed
       ELSE IF PrimaryOp(config) = "send_interactive_card"
            THEN /\ log' = log \o Emit(config.log_level, <<"info:lark_resp">>)
                 /\ pc' = "mention"
                 /\ UNCHANGED <<outcome, escaped, runs>>
            ELSE Delivered(<<"info:lark_resp">>)
    /\ call' = IdleCall
    /\ UNCHANGED <<env, entry, config, jira, issues, fields_meta, net, sends, mention, handlers,
                   inp, out>>

\* run_once_card: the interactive card is built and sent whatever the
\* message type of the settings is
RenderCard ==
    /\ pc = "card_render"
    /\ IF CardRaises(Entries(issues), config.qa_field_path, config.show_limit,
                     config.jira_base_url, config.report_jql)
       THEN /\ OnPushFailed
            /\ UNCHANGED <<sends, call>>
       ELSE /\ sends' = Append(sends, PrimarySend("send_interactive_card"))
            /\ call' = NewCall("_post", DefaultRetries, DefaultBackoff)
            /\ pc' = "card_sending"
            /\ UNCHANGED <<log, outcome, escaped, runs>>
    /\ UNCHANGED <<env, entry, config, jira, issues, fields_meta, net, mention, handlers, inp, out>>

\* run_once_card after send_interactive_card returned or raised: the two
\* info records, and no mention pass
AfterCardSend ==
    /\ pc = "card_sending"
    /\ CallOver
    /\ IF call.phase = "raised" THEN OnPushFailed
       ELSE Delivered(<<"info:lark_resp">>)
    /\ call' = IdleCall
    /\ UNCHANGED <<env, entry, config, jira, issues, fields_meta, net, sends, mention, handlers,
                   inp, out>>

\* the inner `except Exception` of the mention pass: logger.warning, then the
\* invocation goes on to its last statement
MentionFailureAbortsPush(stage, m) ==
    /\ mention' = [m EXCEPT !.ran = TRUE, !.failed = stage]
    /\ OnPushFailed
OnMentionFailed(stage, m) ==
    /\ mention' = [m EXCEPT !.ran = TRUE, !.failed = stage]
    /\ Delivered(<<"warning:mention">>)
\* the collecting loop raised at the issue of index stop
CollectFailed(iss, qa_path, stop) ==
    OnMentionFailed("collect", [mention EXCEPT !.names = NamesUpTo(iss, qa_path, stop),
                                               !.emails = EmailsUpTo(iss, stop)])

\* the warning logged when the map file cannot be read
MapWarning(file) ==
    IF file.state \in {"missing", "invalid"} THEN <<"warning:map">> ELSE <<>>

\* the mention pass up to its send: collect names and e-mails, read the map,
\* resolve the identifiers, choose the reminder
MentionPass ==
    /\ pc = "mention"
    /\ \E file \in MapFiles :
        IF ~config.at_qa_mention
        THEN /\ Delivered(<<>>)
             /\ UNCHANGED <<mention, sends, call>>
        ELSE IF CollectRaises(Entries(issues), config.qa_field_path)
        THEN /\ CollectFailed(Entries(issues), config.qa_field_path,
                              FirstRaising(Entries(issues), config.qa_field_path))
             /\ UNCHANGED <<sends, call>>
        ELSE IF ResolveRaises(file, QaNames(Entries(issues), config.qa_field_path),
                              QaEmails(Entries(issues)))
        THEN /\ OnMentionFailed("resolve",
                                [NoMention EXCEPT !.names = QaNames(Entries(issues), config.qa_field_path),
                                                  !.emails = QaEmails(Entries(issues)),
                                                  !.file = file])
             /\ UNCHANGED <<sends, call>>
        ELSE LET names  == QaNames(Entries(issues), config.qa_field_path)
                 emails == QaEmails(Entries(issues))
                 m == [ran |-> TRUE, failed |-> "", names |-> names, emails |-> emails,
                       file |-> file,
                       user_ids |-> UserIds(LoadMapping(file), names, emails)]
                 rem == Reminder(config, m)
             IN  /\ mention' = m
                 /\ IF rem # <<>>
                    THEN /\ sends' = sends \o rem
                         /\ call' = NewCall("_post", DefaultRetries, DefaultBackoff)
                         /\ log' = log \o Emit(config.log_level, MapWarning(file))
                         /\ pc' = "mention_sending"
                         /\ UNCHANGED <<outcome, escaped, runs>>
                    ELSE /\ Delivered(MapWarning(file) \o <<"info:no_reminder">>)
                         /\ UNCHANGED <<sends, call>>
    /\ UNCHANGED <<env, entry, config, jira, issues, fields_meta, net, handlers, inp, out>>

\* run_once after the reminder's send returned or raised
AfterMentionSend ==
    /\ pc = "mention_sending"
    /\ CallOver
    /\ IF call.phase = "raised" THEN OnMentionFailed("send", mention)
       ELSE /\ Delivered(<<"info:reminder_resp">>)
            /\ UNCHANGED mention
    /\ call' = IdleCall
    /\ UNCHANGED <<env, entry, config, jira, issues, fields_meta, net, sends, handlers, inp, out>>

\* run_once returns: main.py ends, the scheduler waits for the next trigger
ReturnStep ==
    /\ pc = "done"
    /\ IF entry = "scheduler"
       THEN pc' = "waiting" /\ runs' = runs + 1
       ELSE pc' = "exit" /\ UNCHANGED runs
    /\ UNCHANGED <<env, entry, config, jira, issues, fields_meta, call, net, sends, mention, log,
                   outcome, escaped, handlers, inp, out>>

\* scheduler.py main: config = load_config()
SchedLoadEnds(r) ==
    IF r.ok
    THEN /\ config' = r.cfg
         /\ pc' = "main_logger"
         /\ UNCHANGED <<escaped, outcome>>
    ELSE /\ escaped' = "MissingConfiguration"
         /\ outcome' = "startup_failed"
         /\ pc' = "exit"
         /\ UNCHANGED config
SchedLoad ==
    /\ pc = "main_load"
    /\ SchedLoadEnds(load_config(env))
    /\ UNCHANGED <<env, entry, jira, issues, fields_meta, call, net, sends, mention, log, runs,
                   handlers, inp, out>>

\* scheduler.py main: setup_logger
SchedLogger ==
    /\ pc = "main_logger"
    /\ IF config.log_level \in LevelNames
       THEN /\ handlers' = handlers + HandlersPerSetup
            /\ pc' = "main_job"
            /\ UNCHANGED <<escaped, outcome>>
       ELSE /\ escaped' = "UnknownLevel"
            /\ outcome' = "startup_failed"
            /\ pc' = "exit"
            /\ UNCHANGED handlers
    /\ UNCHANGED <<env, entry, config, jira, issues, fields_meta, call, net, sends, mention, log,
                   runs, inp, out>>

\* scheduler.py main: the time zone is looked up and the cron expression
\* read, outside any try; then the job is registered and the scheduler
\* started
SchedJob ==
    /\ pc = "main_job"
    /\ IF ~KnownZone(config.timezone)
       THEN /\ escaped' = "UnknownTimeZoneError"
            /\ outcome' = "startup_failed"
            /\ pc' = "exit"
       ELSE IF ~from_crontab(config.report_cron)
       THEN /\ escaped' = "ValueError"
            /\ outcome' = "startup_failed"
            /\ pc' = "exit"
       ELSE /\ pc' = "waiting"
            /\ UNCHANGED <<escaped, outcome>>
    /\ UNCHANGED <<env, entry, config, jira, issues, fields_meta, call, net, sends,
                   mention, log, runs, handlers, inp, out>>

\* the cron trigger fires: the scheduler invokes run_once
Trigger ==
    /\ pc = "waiting"
    /\ runs < MaxRuns
    /\ pc' = "load"
    /\ config' = NoConfig
    /\ jira' = NoClient
    /\ issues' = Unbound
    /\ call' = IdleCall
    /\ net' = NoNet
    /\ sends' = <<>>
    /\ mention' = NoMention
    /\ log' = <<>>
    /\ outcome' = ""
    /\ UNCHANGED <<env, entry, fields_meta, escaped, runs, handlers, inp, out>>

\* run_dump after list_fields returned or raised: a returned value that has
\* no len() is logged as a failure as a raised call is
AfterListFields ==
    /\ pc = "dump_fields"
    /\ CallOver
    /\ IF call.phase = "raised"
       THEN /\ call' = IdleCall
            /\ log' = log \o Emit(config.log_level, <<"exception:fields">>)
            /\ outcome' = "fetch_failed"
            /\ pc' = "exit"
            /\ UNCHANGED fields_meta
       ELSE IF Sized(call.result)
            THEN /\ fields_meta' = call.result
                 /\ call' = NewCall("search_issues", DefaultRetries, DefaultBackoff)
                 /\ log' = log \o Emit(config.log_level, <<"info:fields">>)
                 /\ pc' = "dump_search"
                 /\ UNCHANGED outcome
            ELSE /\ fields_meta' = call.result
                 /\ call' = IdleCall
                 /\ log' = log \o Emit(config.log_level, <<"exception:fields">>)
                 /\ outcome' = "fetch_failed"
                 /\ pc' = "exit"
    /\ UNCHANGED <<env, entry, config, jira, issues, net, sends, mention, escaped,
                   runs, handlers, inp, out>>

\* `for f in fields_meta: f.get("id"), f.get("name")`: every entry has to be
\* an object
FieldsReadable(meta) == \A i \in 1..Len(Entries(meta)) : IsDict(Entries(meta)[i])

\* id_to_name: the entries whose id and name are both strings, by id; an id
\* met again keeps its place and takes the later name
IdToName(meta) ==
    LET named == SelectSeq(Entries(meta),
                           LAMBDA f : IsStr(DictGet(f, "id")) /\ IsStr(DictGet(f, "name")))
    IN  DictOf([i \in 1..Len(named) |->
                   <<StrOf(DictGet(named[i], "id")), StrOf(DictGet(named[i], "name"))>>])

\* `sub in s`
Contains(s, sub) ==
    \E i \in 0..(Len(s) - Len(sub)) : SubSeq(s, i + 1, i + Len(sub)) = sub

\* the fields whose name holds "env" (or "environment") in any case
Candidates(meta) ==
    SelectSeq(IdToName(meta),
              LAMBDA item : /\ item[2] # <<>>
                            /\ \/ Contains(Lower(item[2]), <<"e","n","v">>)
                               \/ Contains(Lower(item[2]),
                                           <<"e","n","v","i","r","o","n","m","e","n","t">>))

\* a value the UTF-8 encoder of the dump file refuses: a string with a lone
\* surrogate anywhere in it
RECURSIVE Unencodable(_)
Unencodable(x) ==
    CASE x.t = "str"  -> HasSurrogate(x.v)
      [] x.t = "list" -> \E i \in 1..Len(x.v) : Unencodable(x.v[i])
      [] x.t = "dict" -> \E k \in DOMAIN x.v : Unencodable(x.v[k])
      [] OTHER        -> FALSE

\* json.dump of the dump raises UnicodeEncodeError: the query, the candidate
\* fields and the first three issues are what it writes
DumpUnencodable(cfg, cands, iss) ==
    \/ HasSurrogate(cfg.report_jql)
    \/ \E i \in 1..Len(cands) : HasSurrogate(cands[i][1]) \/ HasSurrogate(cands[i][2])
    \/ \E i \in 1..Len(PySliceTo(Entries(iss), 3)) : Unencodable(Entries(iss)[i])

\* issues[0].get("fields", {}).keys() of the first sample issue can be read
SampleRead(first) ==
    IF ~IsDict(first) THEN FALSE
    ELSE IF "fields" \in DOMAIN first.v THEN IsDict(first.v.fields) ELSE TRUE

\* the exception that leaves run_dump once both calls have returned, "" when
\* none does: from the loop over the field metadata, from issues[:3], from
\* writing the file, from reading the first sample issue
DumpErrorOf(cfg, meta, cands, iss) ==
    IF ~FieldsReadable(meta) THEN "AttributeError"
    ELSE IF ~Sliceable(iss) THEN "TypeError"
    ELSE IF DumpUnencodable(cfg, cands, iss) THEN "UnicodeEncodeError"
    ELSE IF Truthy(iss)
         THEN (IF SampleRead(Entries(iss)[1]) THEN "" ELSE "AttributeError")
         ELSE ""

\* the records run_dump logs once search_issues has returned a sized value:
\* the candidates are logged after the sample issue was read
DumpRecordsOf(cands, iss, written, error) ==
    <<"info:issues">>
    \o (IF written THEN <<"info:dumped">> ELSE <<>>)
    \o (IF written /\ Truthy(iss) /\ error = ""
        THEN <<"info:sample">> \o [i \in 1..Len(cands) |-> "info:candidate"]
        ELSE <<>>)

\* the end of run_dump once search_issues has returned a sized value, with
\* the candidates picked and the exception that leaves, if any
DumpEnds(level, iss, cands, readable, error) ==
    /\ issues' = iss
    /\ log' = log \o Emit(level,
                 DumpRecordsOf(cands, iss,
                               readable /\ error \notin {"TypeError", "UnicodeEncodeError"},
                               error))
    /\ outcome' = IF readable /\ error \notin {"TypeError", "UnicodeEncodeError"}
                  THEN "dumped" ELSE "crashed"
    /\ escaped' = error
DumpEndsWith(cfg, meta, iss, cands) ==
    DumpEnds(cfg.log_level, iss, cands, FieldsReadable(meta),
             DumpErrorOf(cfg, meta, cands, iss))

\* run_dump after search_issues returned or raised: the candidates are
\* picked, the dump file is written, then the first sample issue is read for
\* the log
AfterDumpSearch ==
    /\ pc = "dump_search"
    /\ CallOver
    /\ IF call.phase = "raised"
       THEN /\ log' = log \o Emit(config.log_level, <<"exception:fetch">>)
            /\ outcome' = "fetch_failed"
            /\ UNCHANGED <<issues, escaped>>
       ELSE IF Sized(call.result)
            THEN DumpEndsWith(config, fields_meta, call.result,
                              IF FieldsReadable(fields_meta)
                              THEN Candidates(fields_meta) ELSE <<>>)
            ELSE /\ issues' = call.result
                 /\ log' = log \o Emit(config.log_level, <<"exception:fetch">>)
                 /\ outcome' = "fetch_failed"
                 /\ UNCHANGED escaped
    /\ pc' = "exit"
    /\ call' = IdleCall
    /\ UNCHANGED <<env, entry, config, jira, fields_meta, net, sends, mention, runs,
                   handlers, inp, out>>

-----------------------------------------------------------------------------
(* formatter.py: _summarize_by_custom_field and format_text_report *)

\* the name one issue is counted under
CountedName(issue, field_path) == StrOf(CountedValue(issue, field_path))

\* counts[name] = counts.get(name, 0) + 1 over the issues in order
RECURSIVE CountInto(_, _, _)
CountInto(counts, iss, field_path) ==
    IF iss = <<>> THEN counts
    ELSE LET name == CountedName(Head(iss), field_path)
             old  == IF name \in DictKeys(counts) THEN DictAsMap(counts)[name] ELSE 0
         IN  CountInto(DictPut(counts, name, old + 1), Tail(iss), field_path)

\* an order on the items that looks at the name alone
ItemBeforeByName(x, y) == StrLess(x[1], y[1])

\* key=lambda x: (-x[1], x[0]): item x sorts strictly before item y
ItemBefore(x, y) == x[2] > y[2] \/ (x[2] = y[2] /\ StrLess(x[1], y[1]))

\* sorted(items, key=...): stable, an item goes behind the items it does not
\* sort strictly before
RECURSIVE InsertItem(_, _)
InsertItem(sorted, x) ==
    IF sorted = <<>> THEN <<x>>
    ELSE IF ItemBefore(x, Head(sorted)) THEN <<x>> \o sorted
    ELSE <<Head(sorted)>> \o InsertItem(Tail(sorted), x)
RECURSIVE SortedCounts(_)
SortedCounts(items) ==
    IF items = <<>> THEN <<>>
    ELSE InsertItem(SortedCounts(SubSeq(items, 1, Len(items) - 1)), items[Len(items)])

\* _summarize_by_custom_field: the dict as the sequence of its items
summarize_by_custom_field(iss, field_path) ==
    IF SummarizeRaises(iss, field_path) THEN [raised |-> TRUE, counts |-> <<>>]
    ELSE [raised |-> FALSE, counts |-> SortedCounts(CountInto(<<>>, iss, field_path))]

\* the literal "今日暂无更新。"
NoUpdatesLine == [kind |-> "no_updates", count |-> 0, key |-> <<>>,
                  status |-> <<>>, summary |-> <<>>]

\* f"今日 Jira 更新：共 {count} 条。"
HeaderLine(count) == [kind |-> "header", count |-> count, key |-> <<>>,
                      status |-> <<>>, summary |-> <<>>]

\* f"- {key} [{status_name}] {summary}"
IssueLine(issue) ==
    [kind |-> "issue", count |-> 0,
     key |-> StrOf(DictGetOrEmpty(issue, "key")),
     status |-> StrOf(DictGetOrEmpty(OrEmptyDict(DictGet(FieldsOf(issue), "status")), "name")),
     summary |-> StrOf(DictGetOrEmpty(FieldsOf(issue), "summary"))]

\* format_text_report(issues): the text is held as the lines that "\n" joins
format_text_report(iss) ==
    IF TextRaises(iss) THEN [raised |-> TRUE, text |-> <<>>]
    ELSE LET shown == PySliceTo(iss, TextLimit)
             lines == <<HeaderLine(Len(iss))>> \o [i \in 1..Len(shown) |-> IssueLine(shown[i])]
         IN  [raised |-> FALSE,
              text |-> IF lines # <<>> THEN lines ELSE <<NoUpdatesLine>>]

-----------------------------------------------------------------------------
(* card_main.py: _priority_rank, _created_sort_val, build_interactive_card *)

ExactRanks == {"0", "1", "2", "3"}
sHighest == <<"H","I","G","H","E","S","T">>
sHigh == <<"H","I","G","H">>
sMedium == <<"M","E","D","I","U","M">>
sLow == <<"L","O","W">>

\* positions where r"\bP(\d)\b" matches in n
PDigitMatches(n) ==
    {i \in 1..(Len(n) - 1) :
        /\ n[i] = "P"
        /\ IsDigit(n[i + 1])
        /\ (i = 1 \/ ~IsWordChar(n[i - 1]))
        /\ (i + 1 = Len(n) \/ ~IsWordChar(n[i + 2]))}

\* rank of names that no rule recognises, and of an absent name
UnknownRank == 999

\* the rank of the stripped, upper-cased name n, `hits` being the places of
\* n where the pattern P<digit> matches
FirstHit(hits) == CHOOSE i \in hits : \A j \in hits : i <= j
RankOfHits(n, hits) ==
    IF Len(n) = 2 /\ n[1] = "P" /\ n[2] \in ExactRanks THEN DigitVal(n[2])
    ELSE IF hits # {} THEN DigitVal(n[FirstHit(hits) + 1])
    ELSE IF n = sHighest THEN 0
    ELSE IF n = sHigh THEN 1
    ELSE IF n = sMedium THEN 2
    ELSE IF n = sLow THEN 3
    ELSE UnknownRank
RankOfName(n) == RankOfHits(n, PDigitMatches(n))

\* _priority_rank(name) of a string; SortKey hands it str(name) of a truthy
\* value and the empty string for a falsy one
priority_rank(name) ==
    IF name = <<>> THEN UnknownRank ELSE RankOfName(Upper(Strip(name)))

\* a created value: <<0, epoch>> when one of the four formats parses it,
\* <<1, 0>> for float("inf").  A timestamp string is held as the format it is
\* written in, its wall-clock seconds and its UTC offset in seconds.
Infinity == <<1, 0>>
\* %z reads an offset of less than a day; strptime refuses any other
OffsetRead(off) == off > 0 - 86400 /\ off < 86400
created_sort_val(created) ==
    IF ~Truthy(created) \/ created.t # "time" THEN Infinity
    ELSE IF created.v.fmt \in {"frac_tz", "tz"}
         THEN IF OffsetRead(created.v.off) THEN <<0, created.v.sec - created.v.off>>
              ELSE Infinity
    ELSE IF created.v.fmt \in {"frac", "naive"} THEN <<0, created.v.sec>>
    ELSE Infinity

\* the key of the sort: (priority rank, created sort value)
SortKeyCreatedOnly(issue) ==
    <<0, created_sort_val(DictGet(FieldsOf(issue), "created"))>>
SortKey(issue) ==
    <<priority_rank(TextOr(get_by_path(FieldsOf(issue), <<"priority", "name">>), <<>>)),
      created_sort_val(DictGet(FieldsOf(issue), "created"))>>

\* tuple comparison of two sort keys
KeyLess(a, b) ==
    \/ a[1] < b[1]
    \/ a[1] = b[1] /\ a[2][1] < b[2][1]
    \/ a[1] = b[1] /\ a[2][1] = b[2][1] /\ a[2][2] < b[2][2]

\* sorted(issues, key=...): stable, ascending.  The key of every issue is
\* computed once; an issue goes in before the first one of the sorted front
\* whose key is greater than its own.
Keyed(iss) == [i \in 1..Len(iss) |-> <<SortKey(iss[i]), iss[i]>>]
InsertPlace(after, n) ==
    IF after = {} THEN n + 1 ELSE CHOOSE i \in after : \A j \in after : i <= j
InsertAt(front, x, at) ==
    SubSeq(front, 1, at - 1) \o <<x>> \o SubSeq(front, at, Len(front))
InsertSorted(front, x) ==
    InsertAt(front, x,
             InsertPlace({i \in 1..Len(front) : KeyLess(x[1], front[i][1])},
                         Len(front)))
RECURSIVE SortKeyed(_)
SortKeyed(keyed) ==
    IF keyed = <<>> THEN <<>>
    ELSE InsertSorted(SortKeyed(SubSeq(keyed, 1, Len(keyed) - 1)), keyed[Len(keyed)])
Unkeyed(keyed) == [i \in 1..Len(keyed) |-> keyed[i][2]]
SortedIssues(iss) == Unkeyed(SortKeyed(Keyed(iss)))

\* show_items = issues_sorted[:show_limit]
ShowItems(sorted, show_limit) == PySliceTo(sorted, show_limit)

\* the elements one shown issue adds: its row, and a note with the summary
\* unless the single-column row carries it
RowOf(issue, a, key) ==
    [tag |-> "div", kind |-> "row", key |-> key,
     link |-> a.base_url_for_links # <<>> /\ Truthy(DictGetOrEmpty(issue, "key")),
     columns |-> IF a.layout = sSingleColumn THEN 1
                 ELSE IF a.layout = sThreeColumns THEN 3 ELSE 2,
     qa |-> TextOr(get_by_path(FieldsOf(issue), a.qa_field_path), UNASSIGNED),
     priority |-> TextOr(get_by_path(FieldsOf(issue), <<"priority", "name">>), <<>>),
     created |-> Truthy(DictGet(FieldsOf(issue), "created")),
     n |-> 0, view_all |-> FALSE]
NoteOf(key) ==
    [tag |-> "note", kind |-> "summary", key |-> key, link |-> FALSE,
     columns |-> 0, qa |-> <<>>, priority |-> <<>>, created |-> FALSE,
     n |-> 0, view_all |-> FALSE]
RowAndNote(issue, a, key) ==
    <<RowOf(issue, a, key)>>
    \o (IF Truthy(DictGetOrEmpty(FieldsOf(issue), "summary")) /\ a.layout # sSingleColumn
        THEN <<NoteOf(key)>> ELSE <<>>)
RowElements(issue, a) == RowAndNote(issue, a, StrOf(DictGetOrEmpty(issue, "key")))

RECURSIVE AllRows(_, _)
AllRows(items, a) ==
    IF items = <<>> THEN <<>>
    ELSE RowElements(Head(items), a) \o AllRows(Tail(items), a)

Element(tag, kind, n, view_all) ==
    [tag |-> tag, kind |-> kind, key |-> <<>>, link |-> FALSE, columns |-> 0,
     qa |-> <<>>, priority |-> <<>>, created |-> FALSE, n |-> n, view_all |-> view_all]

\* `if jira_base_url and jql` of the collapse notice
ViewAll(a) == a.jira_base_url # <<>> /\ a.jql # <<>>

\* the card's elements in order, from the sorted issues and the shown ones
TopElement(top) ==
    IF top # <<>> THEN <<Element("div", "top", Len(top), FALSE)>> ELSE <<>>
HiddenTail(a, hidden_count) ==
    IF hidden_count > 0
    THEN <<Element("hr", "hr", 0, FALSE), Element("div", "tip", hidden_count, ViewAll(a))>>
    ELSE <<>>
CardOf(a, sorted, show_items) ==
    [raised |-> FALSE,
     elements |->
         <<Element("div", "overview", Len(a.issues), FALSE)>>
         \o TopElement(PySliceTo(summarize_by_custom_field(a.issues, a.qa_field_path).counts, 10))
         \o <<Element("hr", "hr", 0, FALSE)>>
         \o AllRows(show_items, a)
         \o HiddenTail(a, Max(0, Len(sorted) - Len(show_items)))]
CardOfSorted(a, sorted) == CardOf(a, sorted, ShowItems(sorted, a.show_limit))

\* build_interactive_card(issues, ...)
build_interactive_card(a) ==
    IF CardRaises(a.issues, a.qa_field_path, a.show_limit, a.jira_base_url, a.jql)
    THEN [raised |-> TRUE, elements |-> <<>>]
    ELSE CardOfSorted(a, SortedIssues(a.issues))

-----------------------------------------------------------------------------
(* The report program: run_once started by main.py or by the scheduler,     *)
(* run_once_card started by card_main.py, and the diagnostics tool          *)

NoInput == [none |-> TRUE]

Init ==
    /\ entry \in {"main", "card", "scheduler", "dump"}
    /\ env \in EnvsOf(entry)
    /\ pc = IF entry = "scheduler" THEN "main_load" ELSE "load"
    /\ config = NoConfig
    /\ jira = NoClient
    /\ issues = Unbound
    /\ fields_meta = Unbound
    /\ call = IdleCall
    /\ net = NoNet
    /\ sends = <<>>
    /\ mention = NoMention
    /\ log = <<>>
    /\ outcome = ""
    /\ escaped = ""
    /\ runs = 0
    /\ handlers = 0
    /\ inp = NoInput
    /\ out = NoInput

Next ==
    \/ LoadConfigStep
    \/ SetupLoggerStep
    \/ ConstructClientStep
    \/ HttpAttempt
    \/ Sleep
    \/ LoopExit
    \/ AfterSearch
    \/ Render
    \/ AfterPrimarySend
    \/ RenderCard
    \/ AfterCardSend
    \/ MentionPass
    \/ AfterMentionSend
    \/ ReturnStep
    \/ SchedLoad
    \/ SchedLogger
    \/ SchedJob
    \/ Trigger
    \/ AfterListFields
    \/ AfterDumpSearch

Spec == Init /\ [][Next]_vars

-----------------------------------------------------------------------------
(* The configuration loader under every setting of the required variables:  *)
(* each entry point up to the end of its first tracker call                 *)

InitConfig ==
    /\ env \in CredEnvs \cup VersionEnvs
    /\ entry \in {"main", "card", "scheduler", "dump"}
    /\ pc = IF entry = "scheduler" THEN "main_load" ELSE "load"
    /\ config = NoConfig
    /\ jira = NoClient
    /\ issues = Unbound
    /\ fields_meta = Unbound
    /\ call = IdleCall
    /\ net = NoNet
    /\ sends = <<>>
    /\ mention = NoMention
    /\ log = <<>>
    /\ outcome = ""
    /\ escaped = ""
    /\ runs = 0
    /\ handlers = 0
    /\ inp = NoInput
    /\ out = NoInput

NextConfig ==
    \/ LoadConfigStep
    \/ SetupLoggerStep
    \/ ConstructClientStep
    \/ SchedLoad
    \/ SchedLogger
    \/ SchedJob
    \/ Trigger
    \/ HttpAttempt
    \/ Sleep
    \/ LoopExit

SpecConfig == InitConfig /\ [][NextConfig]_vars

-----------------------------------------------------------------------------
(* A retry loop on its own, for every `retries` up to MaxRetries *)

\* backoff_sec values of _post; the tracker client's factor is fixed
Backoffs == {1, 2}

RetryCalls ==
    {NewCall(op, r, DefaultBackoff) : op \in {"search_issues", "list_fields"},
                                      r \in 0..MaxRetries}
    \cup {NewCall("_post", r, b) : r \in 0..MaxRetries, b \in Backoffs}

\* "\n".join(lines)
RECURSIVE JoinLines(_)
JoinLines(lines) ==
    IF lines = <<>> THEN <<>>
    ELSE IF Len(lines) = 1 THEN lines[1]
    ELSE lines[1] \o <<"\n">> \o JoinLines(Tail(lines))

\* the arguments send_post is called with
PostLineInputs ==
    {[title |-> t, lines |-> l] :
        t \in {<<>>, <<"t">>},
        l \in {<<>>, <<<<"l","1">>>>, <<<<"l","1">>, <<"l","2">>>>, <<<<>>, <<"x">>>>}}

\* LarkClient.send_post(title, lines): one post whose only text element holds
\* the lines joined by newlines, handed to _post with its default retries and
\* backoff
PostLinesSend == [op |-> "send_post", what |-> "lines", ids |-> <<>>, names |-> <<>>]
send_post ==
    /\ pc = "send_post"
    /\ sends' = Append(sends, PostLinesSend)
    /\ out' = [msg_type |-> "post", title |-> inp.title, text |-> JoinLines(inp.lines)]
    /\ call' = NewCall("_post", DefaultRetries, DefaultBackoff)
    /\ pc' = "post_sending"
    /\ UNCHANGED <<env, entry, config, jira, issues, fields_meta, net, mention, log, outcome,
                   escaped, runs, handlers, inp>>

\* send_post hands back what _post returned, or lets its exception through
AfterSendPost ==
    /\ pc = "post_sending"
    /\ CallOver
    /\ IF call.phase = "raised"
       THEN outcome' = "raised" /\ escaped' = call.raised
       ELSE outcome' = "returned" /\ UNCHANGED escaped
    /\ pc' = "done"
    /\ UNCHANGED <<env, entry, config, jira, issues, fields_meta, call, net, sends, mention, log,
                   runs, handlers, inp, out>>

\* a retry loop started with arguments of its own, or LarkClient.send_post
\* called on its own
InitRetry ==
    /\ env = <<>>
    /\ entry \in {"retry", "lark"}
    /\ pc = IF entry = "lark" THEN "send_post" ELSE "retry"
    /\ config = NoConfig
    /\ jira = NoClient
    /\ issues = Unbound
    /\ fields_meta = Unbound
    /\ call \in IF entry = "lark" THEN {IdleCall} ELSE RetryCalls
    /\ net = NoNet
    /\ sends = <<>>
    /\ mention = NoMention
    /\ log = <<>>
    /\ outcome = ""
    /\ escaped = ""
    /\ runs = 0
    /\ handlers = 0
    /\ inp \in IF entry = "lark" THEN PostLineInputs ELSE {NoInput}
    /\ out = NoInput

NextRetry ==
    \/ HttpAttempt
    \/ Sleep
    \/ LoopExit
    \/ send_post
    \/ AfterSendPost

SpecRetry == InitRetry /\ [][NextRetry]_vars

-----------------------------------------------------------------------------
(* build_interactive_card on its own *)

CardIssue(key, prio, created, summary) ==
    JDict(<<<<"key", JStr(key)>>,
           <<"fields", JDict(<<<<"summary", JStr(summary)>>,
                             <<"assignee", Person(sAl, sMailA)>>,
                             <<"priority", prio>>,
                             <<"created", created>>>>)>>>>)

\* rank 1, epoch 20
CardA == CardIssue(<<"A">>, Prio(<<"P","1">>), Ts("tz", 20, 0), <<"s">>)
\* rank 0 through strip and upper, epoch 10
CardB == CardIssue(<<"B">>, Prio(<<" ","p","0"," ">>), Ts("naive", 10, 0), <<>>)
\* rank 1 as a synonym, later on the wall clock than CardA but earlier in
\* UTC: epoch 10
CardC == CardIssue(<<"C">>, Prio(<<"H","i","g","h">>), Ts("frac_tz", 30, 20), <<"s">>)
\* rank 2 through the pattern, created unparseable
CardD == CardIssue(<<"D">>, Prio(<<"P","2"," ","-"," ","H","i","g","h">>),
                   Ts("bad", 0, 0), <<"s">>)
\* no priority, no created time
CardE == CardIssue(<<"E">>, JNone, JNone, <<"s">>)
\* rank 2 as a synonym: the dotless i (U+0131) of "medium" is I in upper
\* case; epoch 5
CardF == CardIssue(<<"F">>, Prio(<<"m","e","d","U+0131","u","m">>), Ts("frac", 5, 0),
                   <<"s">>)

\* no rank: in 未P0 the P follows a word character, so the pattern finds no
\* word boundary before it; epoch 1
CardG == CardIssue(<<"G">>, Prio(<<"U+672A","P","0">>), Ts("naive", 1, 0), <<"s">>)

\* rank 3 as a synonym; the offset +2400 of its created time is no offset
\* strptime reads, so it has no created time to sort by
CardH == CardIssue(<<"H">>, Prio(<<"L","o","w">>), Ts("tz", 2, 86400), <<"s">>)
\* rank 3 through the pattern: the digit after the P is the Arabic-Indic
\* digit three (U+0663); epoch 7
CardI == CardIssue(<<"I">>, Prio(<<"p","U+0663">>), Ts("naive", 7, 0), <<"s">>)

CardPool == {CardA, CardB, CardC, CardD, CardE, CardF, CardG, CardH, CardI}

CardArgs(iss, limit, links, base, jql, layout) ==
    [issues |-> iss, show_limit |-> limit, base_url_for_links |-> links,
     jira_base_url |-> base, jql |-> jql, layout |-> layout,
     qa_field_path |-> DefaultQaPath]

ShowLimits == (0 - MaxNegShow)..MaxShow

\* a query with a lone surrogate, as os.environ gives for an undecodable byte
sLoneSurrogate == <<"q", "U+DC80">>

\* every list of the pool under every show_limit, and a few lists under every
\* setting of the links, the query and the layout
CardInputs ==
    {CardArgs(iss, k, sUrl, sUrl, DefaultJql, sTwoColumns) :
        iss \in SeqsUpTo(CardPool, MaxCardIssues), k \in ShowLimits}
    \cup
    {CardArgs(iss, k, links, base, jql, layout) :
        iss \in {<<>>, <<CardA>>, <<CardA, CardB>>, <<CardE, CardD, CardB>>},
        k \in ShowLimits,
        links \in {<<>>, sUrl},
        base \in {<<>>, sUrl},
        jql \in {<<>>, DefaultJql, sLoneSurrogate},
        layout \in {sTwoColumns, sSingleColumn, sThreeColumns, <<"g","r","i","d">>}}

InitCard ==
    /\ env = <<>>
    /\ entry = "card"
    /\ pc = "call"
    /\ config = NoConfig
    /\ jira = NoClient
    /\ issues = Unbound
    /\ fields_meta = Unbound
    /\ call = IdleCall
    /\ net = NoNet
    /\ sends = <<>>
    /\ mention = NoMention
    /\ log = <<>>
    /\ outcome = ""
    /\ escaped = ""
    /\ runs = 0
    /\ handlers = 0
    /\ inp \in CardInputs
    /\ out = NoInput

BuildCard ==
    /\ entry = "card"
    /\ pc = "call"
    /\ out' = build_interactive_card(inp)
    /\ pc' = "returned"
    /\ UNCHANGED <<env, entry, config, jira, issues, fields_meta, call, net, sends, mention, log,
                   outcome, escaped, runs, handlers, inp>>

SpecCard == InitCard /\ [][BuildCard]_vars

-----------------------------------------------------------------------------
(* format_text_report on its own *)

\* issue number i of a long list
NumberedIssue(i) ==
    MkIssue(<<"N", DigitChars[(i \div 10) + 1], DigitChars[(i % 10) + 1]>>,
            JNone, JNone, JNone, JNone)

\* k issues, the j-th of them IssueBo (none when j = 0)
MarkedList(k, j) == [i \in 1..k |-> IF i = j THEN IssueBo ELSE NumberedIssue(i)]

TextInputs ==
    {MarkedList(k, j) : k \in 0..MaxTextIssues, j \in 0..MaxTextIssues}
    \cup SeqsUpTo(RunPool, MaxIssues)

InitText ==
    /\ env = <<>>
    /\ entry = "text"
    /\ pc = "call"
    /\ config = NoConfig
    /\ jira = NoClient
    /\ issues = Unbound
    /\ fields_meta = Unbound
    /\ call = IdleCall
    /\ net = NoNet
    /\ sends = <<>>
    /\ mention = NoMention
    /\ log = <<>>
    /\ outcome = ""
    /\ escaped = ""
    /\ runs = 0
    /\ handlers = 0
    /\ inp \in [issues : TextInputs]
    /\ out = NoInput

FormatText ==
    /\ entry = "text"
    /\ pc = "call"
    /\ out' = format_text_report(inp.issues)
    /\ pc' = "returned"
    /\ UNCHANGED <<env, entry, config, jira, issues, fields_meta, call, net, sends, mention, log,
                   outcome, escaped, runs, handlers, inp>>

SpecText == InitText /\ [][FormatText]_vars

-----------------------------------------------------------------------------
(* Properties of run_once *)

InRunOnce == entry \in {"main", "scheduler"}
\* the record is in the log
InLog(x) == InSeq(x, log)
\* the level the environment sets the root logger to
RootLevel == LevelOf(GetEnv(env, "LOG_LEVEL", sInfo))
\* the record was handed to the logger: it is in the log unless the root
\* level lies above the record's own level
Logged(x) == RecordLevel(x) >= RootLevel => InLog(x)
\* search_issues returned in this invocation
FetchSucceeded == outcome \in {"push_failed", "delivered"}
Reports == SelectSeq(sends, LAMBDA s : s.what = "report")
Reminders == SelectSeq(sends, LAMBDA s : s.what # "report")

\* C1 as the spec states it: run_once never lets an exception escape, whatever
\* fails in the invocation.
C1_NeverEscapes == InRunOnce => outcome # "crashed"

\* the settings the start-up of the scheduler reads, from the environment
ZoneSetting == GetEnv(env, "TIMEZONE", sShanghai)
CronSetting == GetEnv(env, "REPORT_CRON", sDailyCron)

\* C1, amended: the only exceptions that leave run_once are those of
\* load_config and setup_logger, raised before anything is logged or sent.
\* Past these two calls every failure is handed to the logger where it is
\* caught (fetch and push with logger.exception, the mention pass with a
\* warning; the record is written when the configured level admits it) and
\* run_once returns.  The scheduler process ends only when its own start-up
\* failed, before any invocation: in load_config, in setup_logger, on a time
\* zone that is not known or on a cron expression that cannot be read; past
\* its start-up it never ends, and it starts up whenever none of the four
\* fails.
C1_GuardedPastStartup ==
    InRunOnce =>
        /\ outcome = "crashed" =>
              /\ escaped \in {"MissingConfiguration", "UnknownLevel"}
              /\ jira = NoClient
              /\ log = <<>> /\ sends = <<>> /\ net = NoNet
        /\ outcome = "fetch_failed" => Logged("exception:fetch") /\ escaped = ""
        /\ outcome = "push_failed" => Logged("exception:push") /\ escaped = ""
        /\ mention.failed # "" => Logged("warning:mention") /\ escaped = ""
        /\ entry = "scheduler" /\ pc = "exit" =>
              /\ runs = 0
              /\ outcome = "startup_failed"
              /\ escaped \in {"MissingConfiguration", "UnknownLevel",
                               "UnknownTimeZoneError", "ValueError"}
              /\ escaped = "UnknownTimeZoneError" => ~KnownZone(ZoneSetting)
              /\ escaped = "ValueError" =>
                    KnownZone(ZoneSetting) /\ ~from_crontab(CronSetting)
        /\ entry = "scheduler" /\ pc = "waiting" /\ runs = 0 =>
              KnownZone(ZoneSetting) /\ from_crontab(CronSetting)
        /\ entry = "scheduler" /\ pc # "exit" => outcome # "startup_failed"

\* C1 witness: under the scheduler, an invocation after the first one fails in
\* its push, the failure is logged and the invocation is about to return.
C1_Witness ==
    /\ entry = "scheduler"
    /\ runs >= 1
    /\ pc = "done"
    /\ outcome = "push_failed"
    /\ InLog("exception:push")
    /\ escaped = ""

\* C2: when search_issues raises after its last attempt, the invocation has
\* posted nothing to the webhook and ends: the failure is logged, no send
\* operation was invoked, and nothing is posted while the search is under way.
C2_FetchFailureSendsNothing ==
    InRunOnce =>
        /\ pc = "searching" => net.lark = 0 /\ sends = <<>>
        /\ outcome = "fetch_failed" =>
              /\ issues.t = "unbound" => net.jira = DefaultRetries
              /\ issues.t # "unbound" =>
                    ~Sized(issues) /\ net.jira \in 1..DefaultRetries
              /\ net.lark = 0
              /\ sends = <<>>
              /\ call = IdleCall
              /\ pc \in {"done", "waiting", "exit"}

\* the scheduler ended in its start-up on the time zone Mars/Phobos: the
\* configuration was loaded and the logger set up, no invocation took place
UnknownZoneWitness ==
    /\ entry = "scheduler"
    /\ pc = "exit"
    /\ config # NoConfig
    /\ handlers = HandlersPerSetup
    /\ runs = 0
    /\ ZoneSetting = sMars
    /\ escaped = "UnknownTimeZoneError"

\* the scheduler ended in its start-up on a cron expression of four fields
BadCronWitness ==
    /\ entry = "scheduler"
    /\ pc = "exit"
    /\ handlers = HandlersPerSetup
    /\ runs = 0
    /\ CronSetting = sFourFields
    /\ escaped = "ValueError"

\* under TIMEZONE=utc and a cron expression with a step, a range and weekday
\* names the scheduler has started and finished an invocation
OtherCronWitness ==
    /\ entry = "scheduler"
    /\ ZoneSetting = <<"u","t","c">>
    /\ CronSetting = sWorkdays
    /\ runs >= 1

\* search_issues returned null at its first request: the invocation ended as
\* a failed fetch, with nothing posted
NullBodyWitness ==
    /\ entry = "main"
    /\ pc = "exit"
    /\ outcome = "fetch_failed"
    /\ issues = JNone
    /\ net = [jira |-> 1, lark |-> 0]
    /\ sends = <<>>

\* C2 witness: main.py has ended after three failed searches.
C2_Witness ==
    /\ entry = "main"
    /\ pc = "exit"
    /\ outcome = "fetch_failed"
    /\ net = [jira |-> DefaultRetries, lark |-> 0]

\* the send operation the message type selects, from the environment
ExpectedOp ==
    LET t == Lower(IF "MESSAGE_TYPE" \in DOMAIN env THEN env["MESSAGE_TYPE"] ELSE sPost)
    IN  IF t = <<"p","o","s","t">> THEN "send_post_content"
        ELSE IF t = <<"i","n","t","e","r","a","c","t","i","v","e">> THEN "send_interactive_card"
        ELSE "send_text"

\* C4 as the spec states it: every invocation whose fetch succeeded has invoked
\* exactly one primary send operation by the time it ends.
C4_OneSendAfterEveryFetch ==
    InRunOnce /\ pc = "done" /\ FetchSucceeded => Len(Reports) = 1

\* C4, amended: an invocation whose fetch succeeded and whose rendering did not
\* raise invokes exactly one primary send operation, the one its lower-cased
\* message type selects (post, interactive, anything else: text), and it is the
\* first send of the invocation; when rendering raises, none is invoked.
C4_OneSendWhenRendered ==
    InRunOnce =>
        /\ Len(Reports) <= 1
        /\ sends # <<>> => sends[1] = PrimarySend(ExpectedOp) /\ Logged("info:fetched")
        /\ pc = "done" /\ FetchSucceeded =>
              Len(Reports) = (IF RenderRaises(config, issues) THEN 0 ELSE 1)

\* C4 witness: a message type that is not `post` once lower-cased (it has a
\* leading blank) was sent with send_text, and the invocation is over.
C4_Witness ==
    /\ InRunOnce
    /\ pc = "done"
    /\ "MESSAGE_TYPE" \in DOMAIN env
    /\ env["MESSAGE_TYPE"] = <<" ","p","o","s","t">>
    /\ sends = <<PrimarySend("send_text")>>
    /\ outcome = "delivered"

\* the keys (collected names and e-mails) the map file of the pass gives a
\* non-empty identifier for; a file that is missing or unparseable gives none
ResolvedKeys ==
    IF mention.file.state # "ok" THEN {}
    ELSE {k \in (mention.names \cup mention.emails) \cap DOMAIN mention.file.map :
              mention.file.map[k] # <<>>}

\* C5 as the spec states it: in every mention pass, with no identifier
\* resolved, the plain flag on and a name collected, one plain post is sent.
C5_PlainWheneverUnresolved ==
    InRunOnce /\ pc = "done" /\ mention.ran
        /\ ResolvedKeys = {} /\ config.at_qa_plain /\ mention.names # {}
        => Len(Reminders) = 1 /\ Reminders[1].what = "plain"

\* C5, amended: at most one reminder is sent, and only in interactive mode
\* with the mention flag on, after the card was sent.  Where the pass reached
\* its decision without raising: if an identifier resolved, the reminder is
\* one mention post carrying the resolved identifiers; otherwise, with the
\* plain flag on and a name collected, it is one plain post listing the names;
\* otherwise there is none.  A missing or unparseable map file resolves
\* nothing.  A pass that raised before its decision sends no reminder, and
\* with the mention flag off there is none whatever the plain flag is.
C5_ReminderPriority ==
    InRunOnce /\ pc = "done" =>
        /\ mention.failed \in {"collect", "resolve"} => Reminders = <<>>
        /\ Len(Reminders) <= 1
        /\ Reminders # <<>> =>
              /\ ExpectedOp = "send_interactive_card"
              /\ config.at_qa_mention
              /\ Logged("info:lark_resp")
        /\ ~config.at_qa_mention => Reminders = <<>> /\ ~mention.ran
        /\ mention.ran /\ mention.failed \notin {"collect", "resolve"} =>
              IF ResolvedKeys # {}
              THEN /\ Len(Reminders) = 1
                   /\ Reminders[1].what = "mention"
                   /\ Reminders[1].ids # <<>>
                   /\ {Reminders[1].ids[i] : i \in 1..Len(Reminders[1].ids)}
                          = {mention.file.map[k] : k \in ResolvedKeys}
              ELSE IF config.at_qa_plain /\ mention.names # {}
              THEN /\ Len(Reminders) = 1
                   /\ Reminders[1].what = "plain"
                   /\ {Reminders[1].names[i] : i \in 1..Len(Reminders[1].names)}
                          = mention.names
              ELSE Reminders = <<>>

\* C5 witness: the map file is missing, the plain flag is on and a name was
\* collected: the invocation ended having sent the plain reminder.
C5_Witness ==
    /\ InRunOnce
    /\ pc = "done"
    /\ mention.ran
    /\ mention.file = MapMissing
    /\ mention.names # {}
    /\ Len(sends) = 2
    /\ sends[2].what = "plain"
    /\ InLog("warning:map")
    /\ InLog("info:reminder_resp")

\* C6: the mention pass is entered only after send_interactive_card returned
\* (its response is logged and the card is the first send).  When a step of
\* the pass raises, the invocation is still a delivered report: the warning is
\* logged, the final "pushed" line is logged, no push failure is recorded, no
\* exception leaves, and the card was sent exactly once.
C6_MentionFailureContained ==
    InRunOnce =>
        /\ pc \in {"mention", "mention_sending"} \/ mention.ran =>
              /\ sends # <<>>
              /\ sends[1] = PrimarySend("send_interactive_card")
              /\ Logged("info:lark_resp")
              /\ net.lark >= 1
        /\ mention.failed # "" =>
              /\ outcome = "delivered"
              /\ Logged("warning:mention")
              /\ Logged("info:pushed")
              /\ ~InLog("exception:push")
              /\ escaped = ""
              /\ Len(Reports) = 1
              /\ pc \in {"done", "waiting", "exit"}

\* C6 witness: the reminder's send failed on every attempt after the card went
\* out at the first attempt, and the invocation ended as delivered.
C6_Witness ==
    /\ InRunOnce
    /\ pc = "done"
    /\ mention.failed = "send"
    /\ outcome = "delivered"
    /\ net.lark = 1 + DefaultRetries
    /\ Len(sends) = 2

-----------------------------------------------------------------------------
(* Properties of the retry loops *)

\* the sleeps of a loop that made n attempts: backoff * k after attempt k < n
ExpectedSleeps(backoff, n) == [k \in 1..(n - 1) |-> backoff * k]

\* C3: with retries >= 1, a call that raised made exactly `retries` requests,
\* each of which failed, slept backoff * k after failed attempt k for every
\* k < retries and not after the last one, the sleeps strictly increasing, and
\* raised the exception of the last attempt; a call that returned did so at
\* the attempt that succeeded, having slept only after the failed attempts
\* before it.
C3_RetryExhaustion ==
    call.phase \in {"raised", "returned"} /\ call.retries >= 1 =>
        /\ call.phase = "raised" =>
              /\ net[Endpoint(call.op)] = call.retries
              /\ call.sleeps = ExpectedSleeps(call.backoff, call.retries)
              /\ call.raised = "last_exc"
              /\ call.last_exc = call.retries
        /\ call.phase = "returned" =>
              /\ call.attempt <= call.retries
              /\ net[Endpoint(call.op)] = call.attempt
              /\ call.sleeps = ExpectedSleeps(call.backoff, call.attempt)
              /\ call.last_exc = call.attempt - 1
        /\ \A i, j \in 1..Len(call.sleeps) : i < j => call.sleeps[i] < call.sleeps[j]

\* C3 witness: _post with the largest `retries` and a backoff of 2 has raised
\* after failing every time.
C3_Witness ==
    /\ entry = "retry"
    /\ call.op = "_post"
    /\ call.retries = MaxRetries
    /\ call.backoff = 2
    /\ call.phase = "raised"
    /\ Len(call.sleeps) = MaxRetries - 1
    /\ net.lark = MaxRetries

-----------------------------------------------------------------------------
(* Properties of load_config *)

Unset(name) == name \notin DOMAIN env \/ env[name] = <<>>

\* the auth method is `basic` once trimmed and lower-cased
BasicSelected ==
    /\ "JIRA_AUTH_METHOD" \in DOMAIN env
    /\ Lower(Strip(env["JIRA_AUTH_METHOD"])) = <<"b","a","s","i","c">>

ExpectedMissing ==
    \/ Unset("JIRA_BASE_URL")
    \/ Unset("LARK_WEBHOOK_URL")
    \/ BasicSelected /\ (Unset("JIRA_USERNAME") \/ Unset("JIRA_PASSWORD"))
    \/ ~BasicSelected /\ (Unset("JIRA_EMAIL") \/ Unset("JIRA_API_TOKEN"))

\* C10: once an entry point (run_once, the scheduler's main, the diagnostics
\* tool) is past its load_config call, the call has failed with the
\* missing-configuration error exactly when JIRA_BASE_URL or LARK_WEBHOOK_URL
\* is absent or empty or a member of the selected mode's pair is (username and
\* password under `basic` after trimming and lower-casing, email and token
\* otherwise); the other pair plays no part; and when it failed no request was
\* made.
C10_MissingConfiguration ==
    /\ pc \notin {"load", "main_load"} =>
          /\ (escaped = "MissingConfiguration") <=> ExpectedMissing
          /\ ~ExpectedMissing => config # NoConfig
    /\ escaped = "MissingConfiguration" =>
          /\ net = NoNet
          /\ sends = <<>>
          /\ jira = NoClient
          /\ pc \in {"exit", "waiting"}

\* C10 witness: the diagnostics tool under " Basic " with email and token set
\* but no username stopped at load_config with no request made.
C10_Witness ==
    /\ entry = "dump"
    /\ pc = "exit"
    /\ escaped = "MissingConfiguration"
    /\ BasicSelected
    /\ env["JIRA_AUTH_METHOD"] # <<"b","a","s","i","c">>
    /\ ~Unset("JIRA_EMAIL") /\ ~Unset("JIRA_API_TOKEN") /\ ~Unset("JIRA_PASSWORD")
    /\ ~Unset("JIRA_BASE_URL") /\ ~Unset("LARK_WEBHOOK_URL")
    /\ "JIRA_USERNAME" \notin DOMAIN env
    /\ net = NoNet

-----------------------------------------------------------------------------
(* Properties of build_interactive_card *)

CardReturned == entry = "card" /\ pc = "returned" /\ ~out.raised
Rows == SelectSeq(out.elements, LAMBDA e : e.kind = "row")
Tips == SelectSeq(out.elements, LAMBDA e : e.kind = "tip")
RowKeys == [i \in 1..Len(Rows) |-> Rows[i].key]

\* what the rule of the claim gives each issue of CardPool, by its key: the
\* priority rank, whether the created time is unusable, and its UTC second
RankByRule(k) ==
    CASE k = <<"A">> -> 1
      [] k = <<"B">> -> 0
      [] k = <<"C">> -> 1
      [] k = <<"D">> -> 2
      [] k = <<"F">> -> 2
      [] k = <<"H">> -> 3
      [] k = <<"I">> -> 3
      [] OTHER       -> 999
UndatedByRule(k) == k \in {<<"D">>, <<"E">>, <<"H">>}
SecondByRule(k) ==
    CASE k = <<"A">> -> 20
      [] k = <<"B">> -> 10
      [] k = <<"C">> -> 10
      [] k = <<"F">> -> 5
      [] k = <<"G">> -> 1
      [] k = <<"I">> -> 7
      [] OTHER       -> 0

\* row a may not stand after row b
Before(a, b) ==
    \/ RankByRule(a) < RankByRule(b)
    \/ /\ RankByRule(a) = RankByRule(b)
       /\ \/ ~UndatedByRule(a) /\ UndatedByRule(b)
          \/ ~UndatedByRule(a) /\ ~UndatedByRule(b) /\ SecondByRule(a) < SecondByRule(b)

\* C7: whatever the input order, no row stands after a row it should precede:
\* lower priority rank first (unknown or absent priority last), within a rank
\* the older created time first, and an absent or unparseable created time
\* after every parseable one.
C7_RowsSorted ==
    CardReturned =>
        \A i, j \in 1..Len(Rows) : i < j => ~Before(Rows[j].key, Rows[i].key)

\* C7 witness: an issue of no rank (the oldest of the three), one of rank 3
\* and one of rank 2 (older than that of rank 3) come out as rank 2, rank 3,
\* no rank.
C7_Witness ==
    /\ CardReturned
    /\ inp.issues = <<CardG, CardI, CardF>>
    /\ inp.show_limit >= 3
    /\ RowKeys = <<(<<"F">>), (<<"I">>), (<<"G">>)>>

\* P1 (second 20), " p0 ", High (later on the wall clock, second 10 in UTC)
\* come out as p0, the older of rank 1, the younger of rank 1
SameRankWitness ==
    /\ CardReturned
    /\ inp.issues = <<CardA, CardB, CardC>>
    /\ inp.show_limit >= 3
    /\ RowKeys = <<(<<"B">>), (<<"C">>), (<<"A">>)>>

\* within rank 3 the issue whose offset cannot be read stands after the one
\* with a created time, and both stand before the issue of no priority
UnreadOffsetWitness ==
    /\ CardReturned
    /\ inp.issues = <<CardE, CardH, CardI>>
    /\ inp.show_limit >= 3
    /\ RowKeys = <<(<<"I">>), (<<"H">>), (<<"E">>)>>

\* C8 as the spec states it: for every show_limit the card shows the first
\* min(n, max(0, show_limit)) issues of the sorted order, the notice appears
\* exactly when issues are hidden and states their number, and it carries the
\* view-all link exactly when jira_base_url and jql are both non-empty.
C8_ShowLimitClamped ==
    CardReturned =>
        LET n == Len(inp.issues)
            shown == Min(n, Max(0, inp.show_limit))
        IN  /\ Len(Rows) = shown
            /\ RowKeys = [i \in 1..shown |-> StrOf(DictGet(SortedIssues(inp.issues)[i], "key"))]
            /\ Len(Tips) = (IF n - shown > 0 THEN 1 ELSE 0)
            /\ \A i \in 1..Len(Tips) :
                  /\ Tips[i].n = n - shown
                  /\ Tips[i].view_all <=> (inp.jira_base_url # <<>> /\ inp.jql # <<>>)

\* C8, the failing input reached: three issues under show_limit -1 give two
\* rows and a notice of one remaining item.
C8_Witness ==
    /\ CardReturned
    /\ Len(inp.issues) = 3
    /\ inp.show_limit = 0 - 1
    /\ Len(Rows) = 2
    /\ Len(Tips) = 1
    /\ Tips[1].n = 1

-----------------------------------------------------------------------------
(* Properties of format_text_report *)

\* C9 as the spec states it: the empty list gives the no-updates sentinel
\* alone; a non-empty list gives the header with the total count followed by
\* the lines of at most the first 10 issues in input order.
C9_EmptyGivesSentinel ==
    entry = "text" /\ pc = "returned" /\ ~out.raised =>
        IF inp.issues = <<>>
        THEN out.text = <<NoUpdatesLine>>
        ELSE /\ Head(out.text) = HeaderLine(Len(inp.issues))
             /\ Len(out.text) = 1 + Min(10, Len(inp.issues))
             /\ \A i \in 2..Len(out.text) :
                   /\ out.text[i].kind = "issue"
                   /\ out.text[i].key = StrOf(DictGet(inp.issues[i - 1], "key"))

\* C9, the failing input reached: the empty list gives the header line with a
\* count of 0.
C9_Witness ==
    /\ entry = "text"
    /\ pc = "returned"
    /\ inp.issues = <<>>
    /\ out = [raised |-> FALSE, text |-> <<HeaderLine(0)>>]

-----------------------------------------------------------------------------
(* fetch_open_ids.py: the resolver tool that writes the mention map         *)

\* tool runs on one output path
MaxToolRuns == 2

\* [e.strip() for e in pieces if e.strip()]
RECURSIVE StripNonEmpty(_)
StripNonEmpty(pieces) ==
    IF pieces = <<>> THEN <<>>
    ELSE LET e == Strip(Head(pieces))
         IN  (IF e # <<>> THEN <<e>> ELSE <<>>) \o StripNonEmpty(Tail(pieces))

\* read_emails_from_file(path): a file is [exists, lines]
read_emails_from_file(f) == IF f.exists THEN StripNonEmpty(f.lines) ELSE <<>>

\* the email list of main: --emails, held as the pieces between its commas
\* (<<>> for the empty string), or else the input file
EmailsOf(args) ==
    IF args.emails # <<>> THEN StripNonEmpty(args.emails)
    ELSE read_emails_from_file(args.input)

\* the credential check without the strip: a blank value would pass
CredentialsMissingNoStrip(e) ==
    IF GetEnv(e, "LARK_APP_ID", <<>>) = <<>> THEN TRUE
    ELSE GetEnv(e, "LARK_APP_SECRET", <<>>) = <<>>

\* `not app_id or not app_secret` after os.getenv(..., "").strip()
CredentialsMissing(e) ==
    \/ Strip(GetEnv(e, "LARK_APP_ID", <<>>)) = <<>>
    \/ Strip(GetEnv(e, "LARK_APP_SECRET", <<>>)) = <<>>

\* a token exchange that fails on the HTTP status alone
TokenRaisesHttpOnly(resp) == ~resp.http_ok

\* get_tenant_access_token on a response [http_ok, code, token]: TRUE when it
\* raises (raise_for_status, or no success code, or no token)
TokenRaises(resp) == ~resp.http_ok \/ resp.code # 0 \/ resp.token = <<>>

\* one entry of user_list or items: `email or enterprise_email`, open_id
EntryEmail(u) == IF u.email # <<>> THEN u.email ELSE u.enterprise_email
RECURSIVE CollectEntries(_, _)
CollectEntries(d, users) ==
    IF users = <<>> THEN d
    ELSE LET u == Head(users)
             next == IF EntryEmail(u) # <<>> /\ u.open_id # <<>>
                     THEN DictPut(d, EntryEmail(u), u.open_id) ELSE d
         IN  CollectEntries(next, Tail(users))

\* batch_get_open_ids_by_emails on a response [http_ok, code, user_list, items]
BatchRaises(resp) == ~resp.http_ok \/ resp.code # 0
batch_get_open_ids_by_emails(resp) ==
    CollectEntries(CollectEntries(<<>>, resp.user_list), resp.items)

\* get_user_name_by_open_id on a response [http_ok, code, name, display_name]
NameRaises(resp) == ~resp.http_ok
get_user_name_by_open_id(resp) ==
    IF resp.code # 0 THEN <<>>
    ELSE IF resp.name # <<>> THEN resp.name
    ELSE resp.display_name

\* key = name or email
MappingKeyNameOnly(name, email) == name
MappingKey(name, email) == IF name # <<>> THEN name ELSE email

\* merged = json.load(out) when the file exists and parses, else {}
ExistingMap(file) ==
    IF file.state \in {"ok", "not_object"} THEN file ELSE MapOf(<<>>)

\* merged.update(mapping) on dicts
MergeReplaces(old, new) == new
MergeMaps(old, new) ==
    [k \in DOMAIN old \cup DOMAIN new |-> IF k \in DOMAIN new THEN new[k] ELSE old[k]]

\* the tool's process and the output file: `prev` is the file as the run
\* found it, `exit` the exit code (-1 while running), `pending` the items of
\* email_to_open still to be named, `mapping` the dict generate_mapping builds;
\* `answers` keeps what the three endpoints answered in this run: the token
\* response, the batch response, the items of email_to_open, and the per-user
\* responses in order
NoAnswers == [token |-> <<>>, batch |-> <<>>, found |-> <<>>, lookups |-> <<>>]
ToolState(file) ==
    [file |-> file, prev |-> file, exit |-> 0 - 1, pending |-> <<>>, mapping |-> <<>>,
     answers |-> NoAnswers]

NoCalls == [token |-> 0, batch |-> 0, user |-> 0]

\* sys.exit(code) before the merge: the file is not touched
ToolExit(code, line) ==
    /\ out' = [out EXCEPT !.exit = code]
    /\ log' = Append(log, line)
    /\ pc' = "tool_exit"

\* main: the credential check, then the email list
ToolCheck ==
    /\ pc = "tool_check"
    /\ IF CredentialsMissing(env) THEN ToolExit(1, "error:credentials")
       ELSE IF EmailsOf(inp) = <<>> THEN ToolExit(1, "error:emails")
       ELSE /\ pc' = "tool_token"
            /\ UNCHANGED <<out, log>>
    /\ UNCHANGED <<env, entry, config, jira, issues, fields_meta, call, net, sends, mention,
                   outcome, escaped, runs, handlers, inp>>

TokenResponses ==
    {[http_ok |-> h, code |-> c, token |-> t] :
        h \in BOOLEAN, c \in {0, 1}, t \in {<<>>, <<"t">>}}

\* generate_mapping: token = get_tenant_access_token(...)
ToolToken ==
    /\ pc = "tool_token"
    /\ net' = [net EXCEPT !.token = @ + 1]
    /\ \E resp \in TokenResponses :
          IF TokenRaises(resp)
          THEN /\ out' = [out EXCEPT !.exit = 2, !.answers.token = <<resp>>]
               /\ log' = Append(log, "error:resolve")
               /\ pc' = "tool_exit"
          ELSE /\ out' = [out EXCEPT !.answers.token = <<resp>>]
               /\ pc' = "tool_batch"
               /\ UNCHANGED log
    /\ UNCHANGED <<env, entry, config, jira, issues, fields_meta, call, sends, mention,
                   outcome, escaped, runs, handlers, inp>>

UserEntry(email, enterprise, open_id) ==
    [email |-> email, enterprise_email |-> enterprise, open_id |-> open_id]

BatchUsers == {UserEntry(sMailA, <<>>, sU1), UserEntry(<<>>, sMailB, sU2),
               UserEntry(sMailA, <<>>, <<>>)}

BatchResponses ==
    {[http_ok |-> h, code |-> c, user_list |-> ul, items |-> it] :
        h \in BOOLEAN, c \in {0, 1}, ul \in SeqsUpTo(BatchUsers, 2),
        it \in {<<>>, <<UserEntry(sMailB, <<>>, sU1)>>}}

\* generate_mapping: email_to_open = batch_get_open_ids_by_emails(token, emails)
ToolBatch ==
    /\ pc = "tool_batch"
    /\ net' = [net EXCEPT !.batch = @ + 1]
    /\ \E resp \in BatchResponses :
          IF BatchRaises(resp)
          THEN /\ out' = [out EXCEPT !.exit = 2, !.answers.batch = <<resp>>]
               /\ log' = Append(log, "error:resolve")
               /\ pc' = "tool_exit"
          ELSE LET found == batch_get_open_ids_by_emails(resp)
               IN  /\ out' = [out EXCEPT !.pending = found, !.answers.batch = <<resp>>,
                                         !.answers.found = found]
                   /\ pc' = IF found = <<>> THEN "tool_merge" ELSE "tool_names"
                   /\ UNCHANGED log
    /\ UNCHANGED <<env, entry, config, jira, issues, fields_meta, call, sends, mention,
                   outcome, escaped, runs, handlers, inp>>

\* a name that holds a lone surrogate, which a JSON answer carries as \ud800
sHalfName == <<"A", "U+D800">>
NameResponses ==
    {[http_ok |-> FALSE, code |-> 0, name |-> <<>>, display_name |-> <<>>],
     [http_ok |-> TRUE, code |-> 1, name |-> sAl, display_name |-> <<>>],
     [http_ok |-> TRUE, code |-> 0, name |-> sAl, display_name |-> sBo],
     [http_ok |-> TRUE, code |-> 0, name |-> <<>>, display_name |-> sBo],
     [http_ok |-> TRUE, code |-> 0, name |-> sHalfName, display_name |-> <<>>],
     [http_ok |-> TRUE, code |-> 0, name |-> <<>>, display_name |-> <<>>]}

\* one turn of the loop of generate_mapping over email_to_open.items()
ToolName ==
    /\ pc = "tool_names"
    /\ net' = [net EXCEPT !.user = @ + 1]
    /\ \E resp \in NameResponses :
          IF NameRaises(resp)
          THEN /\ out' = [out EXCEPT !.exit = 2, !.answers.lookups = Append(@, resp)]
               /\ log' = Append(log, "error:resolve")
               /\ pc' = "tool_exit"
          ELSE LET email == Head(out.pending)[1]
                   open_id == Head(out.pending)[2]
                   key == MappingKey(get_user_name_by_open_id(resp), email)
               IN  /\ out' = [out EXCEPT !.pending = Tail(@),
                                         !.mapping = DictPut(@, key, open_id),
                                         !.answers.lookups = Append(@, resp)]
                   /\ pc' = IF Tail(out.pending) = <<>> THEN "tool_merge" ELSE "tool_names"
                   /\ UNCHANGED log
    /\ UNCHANGED <<env, entry, config, jira, issues, fields_meta, call, sends, mention,
                   outcome, escaped, runs, handlers, inp>>

\* json.dump(merged, f, ensure_ascii=False) to the file opened with
\* encoding utf-8 raises on a key or a value that holds a lone surrogate
MapUnencodable(map) == \E k \in DOMAIN map : HasSurrogate(k) \/ HasSurrogate(map[k])

\* open(out_path, "w") empties the file, then json.dump writes the map piece
\* by piece: when a piece cannot be encoded the file is left holding the
\* pieces before it, which is no JSON document, and the process ends with a
\* traceback and exit code 1
ToolWrite(map) ==
    IF MapUnencodable(map)
    THEN /\ out' = [out EXCEPT !.file = MapInvalid, !.exit = 1]
         /\ escaped' = "UnicodeEncodeError"
         /\ UNCHANGED log
    ELSE /\ out' = [out EXCEPT !.file = MapOf(map), !.exit = 0]
         /\ log' = Append(log, "ok:written")
         /\ UNCHANGED escaped

\* main after generate_mapping returned: merge into the existing file and
\* write it back.  update() on a loaded value that is no dict raises, and the
\* process ends with a traceback and exit code 1 before the file is opened
\* for writing.
ToolMerge ==
    /\ pc = "tool_merge"
    /\ IF ExistingMap(out.file).state = "not_object"
       THEN /\ out' = [out EXCEPT !.exit = 1]
            /\ escaped' = "AttributeError"
            /\ UNCHANGED log
       ELSE ToolWrite(MergeMaps(ExistingMap(out.file).map, DictAsMap(out.mapping)))
    /\ pc' = "tool_exit"
    /\ UNCHANGED <<env, entry, config, jira, issues, fields_meta, call, net, sends, mention,
                   outcome, runs, handlers, inp>>

\* the environments and command lines the tool is started with
ToolEnvs ==
    {[LARK_APP_ID |-> <<"i">>, LARK_APP_SECRET |-> <<"s">>],
     [LARK_APP_ID |-> <<" ">>, LARK_APP_SECRET |-> <<"s">>],
     [LARK_APP_ID |-> <<"i">>],
     [LARK_APP_SECRET |-> <<>>]}

ToolArgs ==
    [emails : {<<>>, <<(<<>>), (<<" ">>)>>, <<(<<" ">> \o sMailA \o <<" ">>), (<<>>)>>},
     input : {[exists |-> FALSE, lines |-> <<>>],
              [exists |-> TRUE, lines |-> <<(<<" ">>), (sMailB \o <<" ">>)>>]}]

ToolFiles == {MapMissing, MapInvalid, MapNotObject, MapOf(<<>>),
              MapOf(sAl :> sU2 @@ sMailB :> sU1),
              MapOf(sBo :> sU1 @@ <<"Z">> :> <<"u","9">>)}

\* the tool is started again on the same output path
ToolRestart ==
    /\ pc = "tool_exit"
    /\ runs + 1 < MaxToolRuns
    /\ runs' = runs + 1
    /\ env' \in ToolEnvs
    /\ inp' \in ToolArgs
    /\ out' = ToolState(out.file)
    /\ net' = NoCalls
    /\ log' = <<>>
    /\ escaped' = ""
    /\ pc' = "tool_check"
    /\ UNCHANGED <<entry, config, jira, issues, fields_meta, call, sends, mention, outcome, handlers>>

InitTool ==
    /\ env \in ToolEnvs
    /\ entry = "fetch_open_ids"
    /\ pc = "tool_check"
    /\ config = NoConfig
    /\ jira = NoClient
    /\ issues = Unbound
    /\ fields_meta = Unbound
    /\ call = IdleCall
    /\ net = NoCalls
    /\ sends = <<>>
    /\ mention = NoMention
    /\ log = <<>>
    /\ outcome = ""
    /\ escaped = ""
    /\ runs = 0
    /\ handlers = 0
    /\ inp \in ToolArgs
    /\ out \in {ToolState(f) : f \in ToolFiles}

NextTool ==
    \/ ToolCheck
    \/ ToolToken
    \/ ToolBatch
    \/ ToolName
    \/ ToolMerge
    \/ ToolRestart

SpecTool == InitTool /\ [][NextTool]_vars

-----------------------------------------------------------------------------
(* Properties of the resolver tool *)

ToolOver == entry = "fetch_open_ids" /\ pc = "tool_exit"

\* C11: a run that ends with exit code 0 on a file that held a map leaves a
\* map with the keys of the previous map and the newly resolved keys and no
\* others: a previous key the run did not resolve keeps its value, a resolved
\* key holds the new identifier.  It holds for the first run on any starting
\* map and for a later run on what the earlier runs left.
C11_MergeKeepsPrevious ==
    ToolOver /\ out.exit = 0 /\ out.prev.state = "ok" =>
        LET resolved == {out.mapping[i][1] : i \in 1..Len(out.mapping)}
        IN  /\ out.file.state = "ok"
            /\ DOMAIN out.file.map = DOMAIN out.prev.map \cup resolved
            /\ \A k \in DOMAIN out.prev.map \ resolved :
                  out.file.map[k] = out.prev.map[k]
            /\ \A i \in 1..Len(out.mapping) :
                  out.file.map[out.mapping[i][1]] = out.mapping[i][2]

\* C11 witness: a second run on {Bo: u1, Z: u9} resolved Al and Bo: Bo is
\* overwritten with u2, Al is added, Z is kept.
C11_Witness ==
    /\ ToolOver
    /\ runs = 1
    /\ out.exit = 0
    /\ out.prev = MapOf(sBo :> sU1 @@ <<"Z">> :> <<"u","9">>)
    /\ out.file = MapOf(sBo :> sU2 @@ <<"Z">> :> <<"u","9">> @@ sAl :> sU1)

AllSpace(s) == \A i \in 1..Len(s) : IsSpace(s[i])
NoCredential(e, name) == name \notin DOMAIN e \/ AllSpace(e[name])
NoCredentials == NoCredential(env, "LARK_APP_ID") \/ NoCredential(env, "LARK_APP_SECRET")
\* no e-mail on the command line (--emails given: none of its pieces holds
\* more than blanks) or, without --emails, in the input file
NoEmails ==
    IF inp.emails # <<>>
    THEN \A i \in 1..Len(inp.emails) : AllSpace(inp.emails[i])
    ELSE ~inp.input.exists \/ \A i \in 1..Len(inp.input.lines) : AllSpace(inp.input.lines[i])
\* generate_mapping returned: the token was granted, the batch was asked once
\* and every item it found was named by an answered per-user request
ResolutionReturned ==
    /\ net.token = 1
    /\ Len(out.answers.token) = 1
    /\ out.answers.token[1].http_ok
    /\ out.answers.token[1].code = 0
    /\ out.answers.token[1].token # <<>>
    /\ net.batch = 1
    /\ Len(out.answers.batch) = 1
    /\ out.answers.batch[1].http_ok
    /\ out.answers.batch[1].code = 0
    /\ net.user = Len(out.answers.found)
    /\ Len(out.answers.lookups) = Len(out.answers.found)
    /\ \A i \in 1..Len(out.answers.lookups) : out.answers.lookups[i].http_ok

\* the checks of a finished run in their order: without a credential exit
\* code 1 on the credential message; otherwise without an e-mail exit code 1
\* on the e-mail message; both without a request.  Otherwise the token was
\* asked for, and exit code 2 goes with the resolution error message and is
\* the exit of every run whose resolution did not return.
ChecksOrdered ==
    IF NoCredentials
    THEN out.exit = 1 /\ net = NoCalls /\ log = <<"error:credentials">>
    ELSE IF NoEmails
    THEN out.exit = 1 /\ net = NoCalls /\ log = <<"error:emails">>
    ELSE /\ net.token = 1
         /\ out.exit \in {0, 1, 2}
         /\ out.exit = 2 <=> log = <<"error:resolve">>
         /\ out.exit = 2 <=> ~ResolutionReturned
         /\ out.exit = 0 => log = <<"ok:written">>

\* C12 as the spec states it: the checks are made in their order, and the
\* file differs from what the run found only after exit code 0.
C12_ChecksInOrder ==
    entry = "fetch_open_ids" =>
        /\ out.file # out.prev => pc = "tool_exit" /\ out.exit = 0
        /\ pc = "tool_exit" => ChecksOrdered

\* C12, the failing input reached: the run found the map {Bo: u1, Z: u9},
\* resolved a@x to u1 and was given a name with a lone surrogate; it ended
\* with exit code 1 on UnicodeEncodeError, without a message, and the file no
\* longer holds a map
C12_Witness ==
    /\ ToolOver
    /\ ResolutionReturned
    /\ out.prev = MapOf(sBo :> sU1 @@ <<"Z">> :> <<"u","9">>)
    /\ out.mapping = <<(<<sHalfName, sU1>>)>>
    /\ out.exit = 1
    /\ escaped = "UnicodeEncodeError"
    /\ log = <<>>
    /\ out.file = MapInvalid

\* what holds of every run: the checks are made in their order; the file
\* differs from what the run found only after the resolution returned, with
\* exit code 0 or with the exit code 1 of the write that json.dump gave up;
\* every other exit code 1 after the resolution is the traceback of the merge
\* on a file whose JSON is no object, which leaves the file as it was
ChecksInOrderUntilWrite ==
    entry = "fetch_open_ids" =>
        /\ out.file # out.prev =>
              /\ pc = "tool_exit"
              /\ ResolutionReturned
              /\ out.exit = 0 \/ (out.exit = 1 /\ escaped = "UnicodeEncodeError")
        /\ pc = "tool_exit" =>
              /\ ChecksOrdered
              /\ out.exit = 2 => out.file = out.prev
              /\ ~NoCredentials /\ ~NoEmails /\ out.exit = 1 =>
                    IF escaped = "UnicodeEncodeError"
                    THEN out.file = MapInvalid /\ log = <<>>
                    ELSE /\ escaped = "AttributeError"
                         /\ out.prev = MapNotObject
                         /\ out.file = out.prev

\* credentials present, --emails is ", " (not empty, no e-mail in it) and
\* the input file holds an e-mail: exit code 1 without a request, the input
\* file is not consulted
EmptyEmailsWitness ==
    /\ ToolOver
    /\ ~NoCredentials
    /\ inp.emails = <<(<<>>), (<<" ">>)>>
    /\ inp.input.exists
    /\ out.exit = 1
    /\ net = NoCalls
    /\ out.file = out.prev

\* the token endpoint did not return success: an HTTP error status, a body
\* whose code is not 0, or a body without a token
TokenRefused ==
    /\ Len(out.answers.token) = 1
    /\ LET r == out.answers.token[1]
       IN  ~r.http_ok \/ r.code # 0 \/ r.token = <<>>
NothingAfterToken ==
    /\ pc = "tool_exit"
    /\ net.batch = 0
    /\ net.user = 0
    /\ out.file = out.prev

\* C13 as the spec states it: when the token endpoint does not return success
\* the tool ends with exit code 1, having called neither the batch nor the
\* per-user endpoint and without writing the map file.
C13_TokenFailureExitsOne ==
    entry = "fetch_open_ids" /\ TokenRefused => NothingAfterToken /\ out.exit = 1

\* C13, amended: when the token endpoint does not return success the tool
\* ends with exit code 2 on the resolution error message, having called
\* neither the batch nor the per-user endpoint and without writing the file.
C13_TokenFailureExitsTwo ==
    entry = "fetch_open_ids" /\ TokenRefused =>
        NothingAfterToken /\ out.exit = 2 /\ log = <<"error:resolve">>

\* C13 witness: the endpoint answered HTTP 200 with a non-zero code; the run
\* ended with exit code 2 and the map it found is still there
C13_Witness ==
    /\ ToolOver
    /\ out.answers.token = <<[http_ok |-> TRUE, code |-> 1, token |-> <<"t">>]>>
    /\ out.exit = 2
    /\ net = [token |-> 1, batch |-> 0, user |-> 0]
    /\ out.prev = MapOf(sAl :> sU2 @@ sMailB :> sU1)
    /\ out.file = out.prev

\* the batch endpoint answered with success
BatchAnswered ==
    /\ Len(out.answers.batch) = 1
    /\ out.answers.batch[1].http_ok
    /\ out.answers.batch[1].code = 0
\* the display name a per-user answer carries, <<>> when the lookup failed
\* (HTTP error status or non-zero code) or carried no name
NameIn(r) ==
    IF ~r.http_ok \/ r.code # 0 THEN <<>>
    ELSE IF r.name # <<>> THEN r.name ELSE r.display_name

\* C16 as the spec states it: once the batch endpoint has answered and the
\* per-user loop is over, the run has not failed, every lookup was made, and
\* for every e-mail the batch resolved the mapping holds its identifier under
\* the display name the lookup returned, or under the e-mail when the lookup
\* failed or returned no name.
C16_EveryResolvedMapped ==
    entry = "fetch_open_ids" /\ BatchAnswered /\ pc \in {"tool_merge", "tool_exit"} =>
        /\ out.exit # 2
        /\ Len(out.answers.lookups) = Len(out.answers.found)
        /\ \A i \in 1..Len(out.answers.found) :
              i <= Len(out.answers.lookups) =>
                  LET email == out.answers.found[i][1]
                      open_id == out.answers.found[i][2]
                      name == NameIn(out.answers.lookups[i])
                      key == IF name # <<>> THEN name ELSE email
                  IN  \E j \in 1..Len(out.mapping) : out.mapping[j] = <<key, open_id>>

\* C16, the failing input reached: the batch resolved a@x to u1, the per-user
\* request was answered with an HTTP error status, and the run ended with
\* exit code 2 and an empty mapping
C16_Witness ==
    /\ ToolOver
    /\ BatchAnswered
    /\ out.answers.found = <<(<<sMailA, sU1>>)>>
    /\ out.answers.lookups = <<[http_ok |-> FALSE, code |-> 0, name |-> <<>>, display_name |-> <<>>]>>
    /\ out.exit = 2
    /\ out.mapping = <<>>
    /\ out.file = out.prev

\* C16, the second divergence reached: a@x -> u1 and b@x -> u2 were both
\* named Al; the run succeeded and the mapping holds u2 alone
C16_SameNameWitness ==
    /\ ToolOver
    /\ out.exit = 0
    /\ out.answers.found = <<(<<sMailA, sU1>>), (<<sMailB, sU2>>)>>
    /\ \A i \in 1..2 : NameIn(out.answers.lookups[i]) = sAl
    /\ out.mapping = <<(<<sAl, sU2>>)>>

-----------------------------------------------------------------------------
(* formatter.py: _summarize_by_custom_field on its own *)

\* issues in one list given to the aggregation
MaxSumIssues == 3

sZed == <<"z","e","d">>
\* a second issue of Al, an issue of zed, an issue of Bo
IssueAlAgain == MkIssue(<<"K","5">>, Person(sAl, sMailA), JNone, JNone, JNone)
IssueZed == MkIssue(<<"K","6">>, Person(sZed, <<>>), JNone, JNone, JNone)
IssueBoNamed == MkIssue(<<"K","7">>, Person(sBo, sMailB), JNone, JNone, JNone)

\* with them an issue whose names are lists, and a null entry
SummaryPool == {IssueAl, IssueAlAgain, IssueBo, IssueNobody, IssueZed, IssueBoNamed,
                IssueQuote, IssueLiLei, IssueListName, JNone}
SummaryPaths == {DefaultQaPath, <<"">>, <<"qa">>}
SummaryInputs ==
    [issues : SeqsUpTo(SummaryPool, MaxSumIssues), field_path : SummaryPaths]

InitSummary ==
    /\ env = <<>>
    /\ entry = "summary"
    /\ pc = "call"
    /\ config = NoConfig
    /\ jira = NoClient
    /\ issues = Unbound
    /\ fields_meta = Unbound
    /\ call = IdleCall
    /\ net = NoNet
    /\ sends = <<>>
    /\ mention = NoMention
    /\ log = <<>>
    /\ outcome = ""
    /\ escaped = ""
    /\ runs = 0
    /\ handlers = 0
    /\ inp \in SummaryInputs
    /\ out = [raised |-> FALSE, counts |-> <<>>]

Summarize ==
    /\ entry = "summary"
    /\ pc = "call"
    /\ out' = summarize_by_custom_field(inp.issues, inp.field_path)
    /\ pc' = "returned"
    /\ UNCHANGED <<env, entry, config, jira, issues, fields_meta, call, net, sends, mention, log,
                   outcome, escaped, runs, handlers, inp>>

SpecSummary == InitSummary /\ [][Summarize]_vars

-----------------------------------------------------------------------------
(* Properties of _summarize_by_custom_field *)

\* the value each issue of the pool holds at each path, read off the issue;
\* the display name of K9 is the list ['Al'], which is counted as it prints
sListAl == <<"[","'","A","l","'","]">>
NameByRule(key, path) ==
    CASE path = DefaultQaPath /\ key \in {<<"K","1">>, <<"K","5">>} -> sAl
      [] path = DefaultQaPath /\ key = <<"K","6">> -> sZed
      [] path = DefaultQaPath /\ key = <<"K","7">> -> sBo
      [] path = DefaultQaPath /\ key = <<"K","9">> -> sListAl
      [] path = DefaultQaPath /\ key = <<"K","1","0">> -> sQuote
      [] path = DefaultQaPath /\ key = <<"K","1","1">> -> sLiLei
      [] path = <<"qa">> /\ key = <<"K","2">> -> sBo
      [] OTHER -> UNASSIGNED
\* ascending order of the names: the apostrophe before the letters, upper
\* case before the bracket before lower case before CJK, and there 未
\* (U+672A) before 李 (U+674E)
NameRank(name) ==
    CASE name = sQuote -> 0
      [] name = sAl -> 1
      [] name = sBo -> 2
      [] name = sListAl -> 3
      [] name = sZed -> 4
      [] name = sLiLei -> 6
      [] OTHER -> 5
RECURSIVE SumCounts(_)
SumCounts(items) == IF items = <<>> THEN 0 ELSE Head(items)[2] + SumCounts(Tail(items))
Reorderings(n) == {f \in [1..n -> 1..n] : \A i, j \in 1..n : f[i] = f[j] => i = j}

\* the inputs of the pool on which a statement of the loop raises: issue.get
\* on the null entry, counts[name] on K9 at the path qa, where its name is
\* the list ['Bo']
EntryRaisesByRule(issue, path) ==
    IF issue.t # "dict" THEN TRUE
    ELSE StrOf(DictGet(issue, "key")) = <<"K","9">> /\ path = <<"qa">>
RaisesByRule == \E i \in 1..Len(inp.issues) : EntryRaisesByRule(inp.issues[i], inp.field_path)

\* the counts of a call that returned: every issue once, under its value at
\* the path or under the unassigned label when that value is empty; the
\* entries by descending count, equal counts by ascending name
CountsByRule(r, n) ==
    /\ \A j, k \in 1..Len(r) : r[j][1] = r[k][1] => j = k
    /\ {r[j][1] : j \in 1..Len(r)}
          = {NameByRule(StrOf(DictGet(inp.issues[i], "key")), inp.field_path) : i \in 1..n}
    /\ \A j \in 1..Len(r) :
          r[j][2] = Cardinality({i \in 1..n :
                        NameByRule(StrOf(DictGet(inp.issues[i], "key")), inp.field_path)
                            = r[j][1]})
    /\ SumCounts(r) = n
    /\ \A j, k \in 1..Len(r) :
          j < k => \/ r[j][2] > r[k][2]
                   \/ r[j][2] = r[k][2] /\ NameRank(r[j][1]) < NameRank(r[k][1])

C14_TieWitness ==
    /\ entry = "summary"
    /\ pc = "returned"
    /\ inp.issues = <<IssueZed, IssueNobody, IssueAl>>
    /\ inp.field_path = DefaultQaPath
    /\ out.counts = <<(<<sAl, 1>>), (<<sZed, 1>>), (<<UNASSIGNED, 1>>)>>

\* the display name of K9 is a list: under the default path the issue is
\* counted under the text of the list, behind the two unassigned issues
ListNameCounted ==
    /\ entry = "summary"
    /\ pc = "returned"
    /\ inp.issues = <<IssueListName, IssueNobody, IssueBo>>
    /\ inp.field_path = DefaultQaPath
    /\ ~out.raised
    /\ out.counts = <<(<<UNASSIGNED, 2>>), (<<sListAl, 1>>)>>

\* under the path qa the name of K9 is a list and the aggregation raises
ListNameRaises ==
    /\ entry = "summary"
    /\ pc = "returned"
    /\ inp.issues = <<IssueAl, IssueListName>>
    /\ inp.field_path = <<"qa">>
    /\ out.raised

\* a null entry behind an issue makes the aggregation raise
NullEntryRaises ==
    /\ entry = "summary"
    /\ pc = "returned"
    /\ inp.issues = <<IssueAl, JNone>>
    /\ inp.field_path = DefaultQaPath
    /\ out.raised

-----------------------------------------------------------------------------
(* Properties of the scheduler process *)

SchedulerStarted ==
    /\ entry = "scheduler"
    /\ pc \notin {"main_load", "main_logger", "main_job"}
    /\ outcome # "startup_failed"

\* C15 as the spec states it: in a process started by the scheduler driver
\* the root logger holds, after any number of run_once invocations, the one
\* console handler and the one file handler of a single setup.
C15_LoggerSetUpOnce == SchedulerStarted => handlers = HandlersPerSetup

\* what the process does instead: the setup of the driver and one more setup
\* for every invocation that got as far as its logger
C15_HandlersGrow ==
    SchedulerStarted /\ pc = "waiting" =>
        /\ handlers >= HandlersPerSetup
        /\ handlers <= HandlersPerSetup * (runs + 1)

\* C15, the failing input reached: the scheduler has run run_once once and is
\* waiting for the next trigger with two console and two file handlers
C15_Witness ==
    /\ entry = "scheduler"
    /\ pc = "waiting"
    /\ runs = 1
    /\ handlers = 2 * HandlersPerSetup

-----------------------------------------------------------------------------
(* Properties of the identifier list of the mention message *)

MentionResolved == InRunOnce /\ mention.ran /\ mention.failed \in {"", "send"}
IdsByName ==
    LET map == LoadMapping(mention.file)
    IN  {map[n] : n \in {x \in mention.names : Resolves(map, x)}}
\* identifiers under the e-mail of an assignee whose name is not in the map
IdsByFallbackEmail ==
    LET map == LoadMapping(mention.file)
        unresolved == {j \in 1..Len(Entries(issues)) :
                          /\ Resolves(map, StrOf(EmailOf(Entries(issues)[j])))
                          /\ ~Resolves(map, StrOf(NameOf(Entries(issues)[j],
                                                         config.qa_field_path)))}
    IN  {map[StrOf(EmailOf(Entries(issues)[j]))] : j \in unresolved}
\* identifiers under the e-mail of any assignee
IdsByAnyEmail ==
    LET map == LoadMapping(mention.file)
    IN  {map[e] : e \in {x \in mention.emails : Resolves(map, x)}}
NoDuplicates(s) == \A i, j \in 1..Len(s) : s[i] = s[j] => i = j
NamesFirst(s) == \A i, j \in 1..Len(s) : i < j /\ s[j] \in IdsByName => s[i] \in IdsByName

\* C18 as the spec states it: the identifier list has no duplicates, holds the
\* identifiers resolved by display name ahead of those resolved by e-mail,
\* and an e-mail is looked up only for an assignee whose display name did not
\* resolve, so the list holds the identifiers found by name and those found
\* by such an e-mail and no others.
C18_EmailOnlyForUnresolvedNames ==
    MentionResolved =>
        /\ NoDuplicates(mention.user_ids)
        /\ NamesFirst(mention.user_ids)
        /\ {mention.user_ids[i] : i \in 1..Len(mention.user_ids)}
              = IdsByName \cup IdsByFallbackEmail

\* what the pass does instead: every collected e-mail is looked up
C18_EveryEmailLookedUp ==
    MentionResolved =>
        /\ NoDuplicates(mention.user_ids)
        /\ NamesFirst(mention.user_ids)
        /\ {mention.user_ids[i] : i \in 1..Len(mention.user_ids)}
              = IdsByName \cup IdsByAnyEmail

\* C18, the failing input reached: the one assignee Al resolves by name to u1,
\* the map holds u2 under Al's e-mail, and the list is u1, u2
C18_Witness ==
    /\ MentionResolved
    /\ issues = JList(<<IssueAl>>)
    /\ mention.file = MapOf(sAl :> sU1 @@ sMailA :> sU2 @@ sMailB :> sU1)
    /\ mention.user_ids = <<sU1, sU2>>

-----------------------------------------------------------------------------
(* formatter.py: _get_by_path on its own *)

sV == <<"v">>
\* the mappings the helper is applied to, by name
PathFields ==
    [list_b      |-> JDict(<<<<"a", JList(<<JDict(<<<<"b", JStr(sV)>>>>)>>)>>>>),
     list_b_name |-> JDict(<<<<"a", JList(<<JDict(<<<<"b", JStr(sV)>>, <<"name", JStr(<<"N">>)>>>>)>>)>>>>),
     list_b_user |-> JDict(<<<<"a", JList(<<JDict(<<<<"b", JDict(<<<<"displayName", JStr(<<"D">>)>>>>)>>>>)>>)>>>>),
     list_c_b    |-> JDict(<<<<"a", JList(<<JDict(<<<<"c", JStr(sV)>>>>), JDict(<<<<"b", JStr(sV)>>>>)>>)>>>>),
     list_empty  |-> JDict(<<<<"a", JList(<<>>)>>>>),
     list_strs   |-> JDict(<<<<"a", JList(<<JStr(<<"x">>), JStr(<<"y">>)>>)>>>>),
     dict_b      |-> JDict(<<<<"a", JDict(<<<<"b", JStr(sV)>>>>)>>>>),
     dict_b_null |-> JDict(<<<<"a", JDict(<<<<"b", JNone>>>>)>>>>),
     dict_b_user |-> JDict(<<<<"a", JDict(<<<<"b", JDict(<<<<"name", JStr(<<"N">>)>>>>)>>>>)>>>>),
     str_a       |-> JDict(<<<<"a", JStr(<<"s">>)>>>>),
     assignee    |-> JDict(<<<<"assignee", Person(sAl, sMailA)>>>>),
     user_list   |-> JDict(<<<<"a", JDict(<<<<"displayName", JList(<<JStr(<<"x">>)>>)>>>>)>>>>),
     user_dict   |-> JDict(<<<<"a", JDict(<<<<"name", JDict(<<<<"k", JStr(sV)>>>>)>>>>)>>>>),
     list_tab    |-> JDict(<<<<"a", JList(<<JStr(<<"x", "\t", "y">>)>>)>>>>),
     list_ff     |-> JDict(<<<<"a", JList(<<JStr(<<"x", "\f", "y">>)>>)>>>>),
     list_order  |-> JDict(<<<<"a", JList(<<JStr(<<"x">>),
                                           JDict(<<<<"b", JStr(<<"1">>)>>,
                                                   <<"a", JStr(<<"2">>)>>>>)>>)>>>>),
     list_quote  |-> JDict(<<<<"a", JList(<<JStr(<<"x">>),
                                           JDict(<<<<"it's", JStr(<<"1">>)>>>>)>>)>>>>),
     stamps      |-> JDict(<<<<"a", Ts("tz", 20, 0)>>, <<"b", Ts("naive", 10, 0)>>>>),
     empty       |-> JDict(<<>>)]
\* a path is the pieces between its dots: "" is <<"">>, "a..b" is <<"a","","b">>
PathPool ==
    {<<"">>, <<"a">>, <<"b">>, <<"a","b">>, <<"a","","b">>, <<"a","b","b">>,
     <<"a","b","c">>, <<"a","x","b">>, DefaultQaPath}

InitPath ==
    /\ env = <<>>
    /\ entry = "path"
    /\ pc = "call"
    /\ config = NoConfig
    /\ jira = NoClient
    /\ issues = Unbound
    /\ fields_meta = Unbound
    /\ call = IdleCall
    /\ net = NoNet
    /\ sends = <<>>
    /\ mention = NoMention
    /\ log = <<>>
    /\ outcome = ""
    /\ escaped = ""
    /\ runs = 0
    /\ handlers = 0
    /\ \E id \in DOMAIN PathFields, path \in PathPool :
          inp = [id |-> id, fields |-> PathFields[id], path |-> path]
    /\ out = [value |-> JStr(<<>>)]

GetByPath ==
    /\ entry = "path"
    /\ pc = "call"
    /\ out' = [value |-> get_by_path(inp.fields, inp.path)]
    /\ pc' = "returned"
    /\ UNCHANGED <<env, entry, config, jira, issues, fields_meta, call, net, sends, mention, log,
                   outcome, escaped, runs, handlers, inp>>

SpecPath == InitPath /\ [][GetByPath]_vars

-----------------------------------------------------------------------------
(* Properties of _get_by_path *)

PathReturned == entry = "path" /\ pc = "returned"
\* the value is the string s
IsString(x, s) == x.t = "str" /\ x.v = s

\* the resolution the spec describes: on a list, the segment's key is looked
\* up in the list's first element
KeyedStep(cur, p) ==
    CASE cur.t = "dict" -> DictGet(cur, p)
      [] cur.t = "list" ->
            IF cur.v # <<>> /\ cur.v[1].t = "dict" THEN DictGet(cur.v[1], p) ELSE JNone
      [] OTHER -> JNone
RECURSIVE KeyedWalk(_, _)
KeyedWalk(cur, parts) ==
    IF cur.t = "none" \/ parts = <<>> THEN cur
    ELSE KeyedWalk(KeyedStep(cur, Head(parts)), Tail(parts))
KeyedValue(fields, path) ==
    LET parts == SelectSeq(path, LAMBDA p : p # "")
        cur == KeyedWalk(fields, parts)
    IN  IF parts = <<>> \/ cur.t = "none" THEN <<>>
        ELSE IF cur.t \in {"str", "list"} THEN StrOf(cur)
        ELSE IF cur.t = "dict" /\ "displayName" \in DOMAIN cur.v THEN cur.v.displayName.v
        ELSE IF cur.t = "dict" /\ "name" \in DOMAIN cur.v THEN cur.v.name.v
        ELSE <<>>
\* the value under `a` is a mapping, or a list that is empty or starts with
\* a mapping: the cases the statement speaks about
ListOfMappings(fields) ==
    "a" \in DOMAIN fields.v =>
        \/ fields.v.a.t = "dict"
        \/ fields.v.a.t = "list" /\ (fields.v.a.v = <<>> \/ fields.v.a.v[1].t = "dict")

\* C19 as the spec states it: a segment that meets a list is looked up in
\* the list's first element, so `a.b` over {a: [{b: v}]} gives v; an empty
\* list, an absent segment and the empty path give the empty string.
C19_KeyAppliedToFirstElement ==
    PathReturned /\ ListOfMappings(inp.fields) /\ Len(inp.path) <= 2 =>
        IsString(out.value, KeyedValue(inp.fields, inp.path))

\* what holds of the statement: the empty path, a path through an absent
\* key, a null value or an empty list give the empty string, and a path over
\* mappings alone gives the value
C19_AbsentGivesEmpty ==
    PathReturned =>
        /\ inp.path = <<"">> => IsString(out.value, <<>>)
        /\ inp.id \in {"empty", "list_empty", "dict_b_null"}
              /\ inp.path \in {<<"a","b">>, <<"a","b","c">>, <<"b">>} => IsString(out.value, <<>>)
        /\ inp.id = "dict_b" /\ inp.path = <<"a","b">>
              => IsString(out.value, sV)
        /\ inp.id = "assignee" /\ inp.path = DefaultQaPath
              => IsString(out.value, sAl)
        /\ inp.id = "list_tab" /\ inp.path = <<"a">>
              => IsString(out.value, <<"[", "'", "x", "\\", "t", "y", "'", "]">>)
        /\ inp.id = "user_list" /\ inp.path = <<"a">> => out.value.t = "list"
        /\ inp.id = "user_dict" /\ inp.path = <<"a">> => out.value.t = "dict"

\* C19, the failing input reached: `a.b` over {a: [{b: v}]} gives the empty
\* string
C19_Witness ==
    /\ PathReturned
    /\ inp.id = "list_b"
    /\ inp.path = <<"a","b">>
    /\ IsString(out.value, <<>>)

\* the segment after the list's segment is the one applied to the first
\* element: `a.x.b` over the same value gives v
C19_NextSegmentWitness ==
    /\ PathReturned
    /\ inp.id = "list_b"
    /\ inp.path = <<"a","x","b">>
    /\ IsString(out.value, sV)

-----------------------------------------------------------------------------
(* formatter.py: format_post_report *)

\* issues in one list given to the post renderer, and the largest top_n
MaxPostIssues == 3
MaxTopN == 3

Paragraph(kind) ==
    [kind |-> kind, n |-> 0, top |-> <<>>, key |-> <<>>, link |-> FALSE,
     link_text |-> JNone, env |-> <<>>, qa |-> <<>>, at |-> FALSE, tail |-> <<>>]

\* the overview paragraph with the total
OverviewParagraph(total) == [Paragraph("overview") EXCEPT !.n = total]

\* a renderer that never adds the frequency line
TopParagraphNever(top_qas) == <<>>

\* `if top_qas:` the frequency line of the first 10 entries
TopParagraph(top_qas) ==
    IF top_qas # <<>> THEN <<[Paragraph("top") EXCEPT !.top = top_qas]>> ELSE <<>>

\* the paragraph of one issue: key (a link when there is a base URL and a
\* key), environment, QA value or the unassigned label, the plain @ of the QA
\* value, then priority and summary as far as they are not empty.  The href of
\* the link and the text without a link hold the key formatted as a string;
\* the "text" of the link element holds the key as it is
IssueParagraph(issue, a) ==
    LET key == DictGetOrEmpty(issue, "key")
        fields == FieldsOf(issue)
        qa_val == get_by_path(fields, a.qa_field_path)
        priority == get_by_path(fields, <<"priority", "name">>)
        env_val == get_by_path(fields, a.env_field_path)
        summary == DictGetOrEmpty(fields, "summary")
        \* [v for v in [priority, summary] if v]; `if tail.strip()` drops a
        \* tail of nothing but whitespace
        vals == SelectSeq(<<priority, summary>>, Truthy)
        tail == [i \in 1..Len(vals) |-> StrOf(vals[i])]
    IN  [Paragraph("issue") EXCEPT
            !.key = StrOf(key),
            !.link = (a.base_url_for_links # <<>> /\ Truthy(key)),
            !.link_text = IF a.base_url_for_links # <<>> /\ Truthy(key) THEN key ELSE JNone,
            !.env = IF Truthy(env_val) THEN StrOf(env_val) ELSE <<>>,
            !.qa = IF Truthy(qa_val) THEN StrOf(qa_val) ELSE UNASSIGNED,
            !.at = (Truthy(qa_val) /\ a.at_qa_plain),
            !.tail = IF \A i \in 1..Len(tail) : Strip(tail[i]) = <<>> THEN <<>> ELSE tail]

\* format_post_report(issues, ...): the paragraphs of the content in order
format_post_report(a) ==
    IF PostRaises(a.issues, a.top_n, a.qa_field_path) THEN [raised |-> TRUE, content |-> <<>>]
    ELSE LET qa_counts == summarize_by_custom_field(a.issues, a.qa_field_path).counts
             top_qas == PySliceTo(qa_counts, 10)
             shown == PySliceTo(a.issues, a.top_n)
         IN  [raised |-> FALSE,
              content |-> <<OverviewParagraph(Len(a.issues))>>
                          \o TopParagraph(top_qas)
                          \o [i \in 1..Len(shown) |-> IssueParagraph(shown[i], a)]]

\* an issue whose key is a list
IssueKeyList ==
    JDict(<<<<"key", JList(<<JStr(<<"K">>)>>)>>,
           <<"fields", JDict(<<<<"summary", JStr(<<"k">>)>>>>)>>>>)
PostPool == {IssueAl, IssueBo, IssueNobody, IssueZed, IssueKeyList}
PostInputs ==
    [issues : SeqsUpTo(PostPool, MaxPostIssues),
     top_n : (0 - 1)..MaxTopN,
     base_url_for_links : {sUrl},
     qa_field_path : {DefaultQaPath, <<"qa">>},
     env_field_path : {<<"">>},
     at_qa_plain : BOOLEAN]

InitPost ==
    /\ env = <<>>
    /\ entry = "post"
    /\ pc = "call"
    /\ config = NoConfig
    /\ jira = NoClient
    /\ issues = Unbound
    /\ fields_meta = Unbound
    /\ call = IdleCall
    /\ net = NoNet
    /\ sends = <<>>
    /\ mention = NoMention
    /\ log = <<>>
    /\ outcome = ""
    /\ escaped = ""
    /\ runs = 0
    /\ handlers = 0
    /\ inp \in PostInputs
    /\ out = [raised |-> FALSE, content |-> <<>>]

FormatPost ==
    /\ entry = "post"
    /\ pc = "call"
    /\ out' = format_post_report(inp)
    /\ pc' = "returned"
    /\ UNCHANGED <<env, entry, config, jira, issues, fields_meta, call, net, sends, mention, log,
                   outcome, escaped, runs, handlers, inp>>

SpecPost == InitPost /\ [][FormatPost]_vars

-----------------------------------------------------------------------------
(* Properties of format_post_report *)

PostReturned == entry = "post" /\ pc = "returned"
TopParagraphs == SelectSeq(out.content, LAMBDA p : p.kind = "top")
IssueParagraphs == SelectSeq(out.content, LAMBDA p : p.kind = "issue")
\* the issues of the pool that hold a value at each path, read off the pool
HasQaByRule(key, path) ==
    \/ path = DefaultQaPath /\ key \in {<<"K","1">>, <<"K","6">>}
    \/ path = <<"qa">> /\ key = <<"K","2">>
SomeQaValue ==
    \E i \in 1..Len(inp.issues) :
        HasQaByRule(StrOf(DictGet(inp.issues[i], "key")), inp.qa_field_path)
\* the paragraphs around the frequency paragraph: the overview stands first,
\* the issue paragraphs stand last and are those of a front of the input, in
\* input order; for a top_n of 0 or more that front is the first top_n
\* issues, or every issue when there are fewer
PostShape ==
    /\ ~out.raised
    /\ out.content[1] = OverviewParagraph(Len(inp.issues))
    /\ Len(out.content) = 1 + Len(TopParagraphs) + Len(IssueParagraphs)
    /\ Len(IssueParagraphs) <= Len(inp.issues)
    /\ inp.top_n >= 0 => Len(IssueParagraphs) = Min(inp.top_n, Len(inp.issues))
    /\ \A i \in 1..Len(IssueParagraphs) :
          LET p == out.content[Len(out.content) - Len(IssueParagraphs) + i]
          IN  p.kind = "issue" /\ p.key = StrOf(DictGet(inp.issues[i], "key"))

\* C17 as the spec states it: the frequency paragraph is there exactly when
\* some issue holds a non-empty value at qa_field_path; without it the
\* content is the overview followed by the paragraphs of the first top_n
\* issues in input order.
C17_TopOnlyWhenQaResolves ==
    PostReturned =>
        /\ Len(TopParagraphs) = (IF SomeQaValue THEN 1 ELSE 0)
        /\ PostShape

\* C17, amended: the frequency paragraph is there exactly when the issue
\* list is not empty, issues without a value being counted under the
\* unassigned label; it stands second, its counts sum to the number of issues
\* (at most 10 names), and the content is the overview, that paragraph if
\* any, and the paragraphs of the first top_n issues in input order.
C17_TopWheneverIssues ==
    PostReturned =>
        /\ Len(TopParagraphs) = (IF inp.issues # <<>> THEN 1 ELSE 0)
        /\ inp.issues # <<>> =>
              /\ out.content[2].kind = "top"
              /\ SumCounts(out.content[2].top) = Len(inp.issues)
        /\ ~SomeQaValue /\ inp.issues # <<>> =>
              out.content[2].top = <<(<<UNASSIGNED, Len(inp.issues)>>)>>
        /\ PostShape

\* C17 witness: two issues without a QA value under top_n = 1 give the
\* overview, the frequency paragraph with the unassigned label counted twice,
\* and the paragraph of the first issue
C17_Witness ==
    /\ PostReturned
    /\ inp.issues = <<IssueNobody, IssueBo>>
    /\ inp.qa_field_path = DefaultQaPath
    /\ inp.top_n = 1
    /\ Len(out.content) = 3
    /\ out.content[2].top = <<(<<UNASSIGNED, 2>>)>>
    /\ out.content[3].key = <<"K","3">>
    /\ out.content[3].qa = UNASSIGNED

-----------------------------------------------------------------------------
(* Properties of the client built from the loaded settings *)

\* load_config succeeded and the entry point has called the constructor
ClientAttempted ==
    /\ entry \in {"main", "card", "scheduler", "dump"}
    /\ config # NoConfig
    /\ jira # NoClient \/ escaped = "InvalidCredentials"
ExpectedAuth ==
    IF BasicSelected THEN <<env["JIRA_USERNAME"], env["JIRA_PASSWORD"]>>
    ELSE <<env["JIRA_EMAIL"], env["JIRA_API_TOKEN"]>>

\* C20 as the spec states it: on every environment load_config accepts, the
\* constructor does not raise, the Basic-auth pair is (username, password)
\* exactly under `basic` and (email, token) otherwise, and the client's API
\* version is the settings' API version, 2 by default under basic and 3
\* otherwise.
C20_ClientMatchesSettings ==
    ClientAttempted =>
        /\ escaped # "InvalidCredentials"
        /\ jira.auth = ExpectedAuth
        /\ jira.api_version = config.api_version
        /\ "JIRA_API_VERSION" \notin DOMAIN env =>
              jira.api_version = (IF BasicSelected THEN <<"2">> ELSE <<"3">>)

\* what holds: the constructor does not raise, the pair follows the method,
\* and the client's version is the settings' version trimmed, or 3 when the
\* settings hold the empty string
C20_ClientVersionTrimmedOrThree ==
    ClientAttempted =>
        /\ escaped # "InvalidCredentials"
        /\ jira.auth = ExpectedAuth
        /\ jira.api_version =
              (IF "JIRA_API_VERSION" \notin DOMAIN env
               THEN (IF BasicSelected THEN <<"2">> ELSE <<"3">>)
               ELSE IF env["JIRA_API_VERSION"] = <<>> THEN <<"3">>
               ELSE IF env["JIRA_API_VERSION"] = <<" ","2"," ">> THEN <<"2">>
               ELSE env["JIRA_API_VERSION"])

\* C20, the failing input reached: basic auth with JIRA_API_VERSION set to
\* the empty string; the settings hold "" and the client asks for version 3
C20_Witness ==
    /\ ClientAttempted
    /\ BasicSelected
    /\ "JIRA_API_VERSION" \in DOMAIN env
    /\ env["JIRA_API_VERSION"] = <<>>
    /\ config.api_version = <<>>
    /\ jira.auth = <<sUser, sPass>>
    /\ jira.api_version = <<"3">>

-----------------------------------------------------------------------------
(* main.py: the message run_once builds from the settings and the issues *)

\* issues in one fetched list given to the renderers
MaxRenderIssues == 2

\* a base for links that does not look at the flag
LinkBaseAlways(cfg) == cfg.jira_base_url

\* base_url_for_links=(config.jira_base_url if config.enable_links else None)
LinkBase(cfg) == IF cfg.enable_links THEN cfg.jira_base_url ELSE <<>>

\* the arguments of format_post_report in run_once
PostArgsOf(cfg, iss) ==
    [issues |-> iss,
     top_n |-> cfg.report_top_n,
     base_url_for_links |-> LinkBase(cfg),
     qa_field_path |-> cfg.qa_field_path,
     env_field_path |-> cfg.env_field_path,
     at_qa_plain |-> cfg.at_qa_plain]

\* the arguments of build_interactive_card in run_once and run_once_card
CardArgsOf(cfg, iss) ==
    [issues |-> iss,
     show_limit |-> cfg.show_limit,
     base_url_for_links |-> LinkBase(cfg),
     jira_base_url |-> cfg.jira_base_url,
     jql |-> cfg.report_jql,
     layout |-> cfg.card_layout,
     qa_field_path |-> cfg.qa_field_path]

NoMessage == [kind |-> "", content |-> <<>>, elements |-> <<>>, text |-> <<>>]

\* the message of one kind from the entries of the fetched value
MessageOf(cfg, iss) ==
    CASE PrimaryOp(cfg) = "send_post_content" ->
            [NoMessage EXCEPT !.kind = "post",
                              !.content = format_post_report(PostArgsOf(cfg, iss)).content]
      [] PrimaryOp(cfg) = "send_interactive_card" ->
            [NoMessage EXCEPT !.kind = "interactive",
                              !.elements = build_interactive_card(CardArgsOf(cfg, iss)).elements]
      [] OTHER ->
            [NoMessage EXCEPT !.kind = "text", !.text = format_text_report(iss).text]

\* the if / elif / else on the lower-cased message type: where the renderer
\* raises there is no message
RenderedMessage(cfg, body) ==
    IF RenderRaises(cfg, body) THEN NoMessage ELSE MessageOf(cfg, Entries(body))

\* an issue without a key
IssueNoKey == MkIssue(<<>>, Person(sBo, sMailB), Prio(<<"P","3">>), JNone, JNone)
RenderPool == {IssueAl, IssueBo, IssueNobody, IssueNoKey}
\* the fetched values given to the renderers: lists of these issues, a list
\* with a null entry, a list whose issue holds a list as name, an empty
\* object and a string
RenderLists ==
    SeqsUpTo(RenderPool, MaxRenderIssues) \cup {<<IssueAl, JNone>>, <<IssueListName>>}
OddRenderBodies == <<JDict(<<>>), JStr(<<>>), JStr(<<"x">>)>>

RenderSettings ==
    [MESSAGE_TYPE : {<<>>, sPost, <<"I","n","t","e","r","a","c","t","i","v","e">>,
                     <<"t","e","x","t">>},
     ENABLE_LINKS : {<<>>, <<"f","a","l","s","e">>, <<"0">>, <<" ","T","R","U","E"," ">>},
     SHOW_LIMIT : {<<>>, <<"0">>, <<"1">>, <<"0","_","1">>},
     REPORT_JQL : {<<"q">>, <<>>},
     CARD_LAYOUT : {sTwoColumns, sSingleColumn}]
\* MESSAGE_TYPE and SHOW_LIMIT are left unset where the setting is <<>>
RenderEnvOf(s) ==
    LET typed == IF s.MESSAGE_TYPE = <<>> THEN EnvToken
                 ELSE With(EnvToken, "MESSAGE_TYPE", s.MESSAGE_TYPE)
        limited == IF s.SHOW_LIMIT = <<>> THEN typed
                   ELSE With(typed, "SHOW_LIMIT", s.SHOW_LIMIT)
    IN  With(With(With(limited, "ENABLE_LINKS", s.ENABLE_LINKS),
                  "REPORT_JQL", s.REPORT_JQL), "CARD_LAYOUT", s.CARD_LAYOUT)
RenderEnvs ==
    {RenderEnvOf(s) : s \in RenderSettings} \cup {EnvToken, EnvCard, With(EnvCard, "SHOW_LIMIT", <<"1">>)}

InitRender ==
    /\ env \in RenderEnvs
    /\ entry = "render"
    /\ pc = "load"
    /\ config = NoConfig
    /\ jira = NoClient
    /\ \E l \in RenderLists, k \in 0..Len(OddRenderBodies) :
          issues = IF k = 0 THEN JList(l) ELSE OddRenderBodies[k]
    /\ fields_meta = Unbound
    /\ call = IdleCall
    /\ net = NoNet
    /\ sends = <<>>
    /\ mention = NoMention
    /\ log = <<>>
    /\ outcome = ""
    /\ escaped = ""
    /\ runs = 0
    /\ handlers = 0
    /\ inp = NoInput
    /\ out = NoMessage

\* config = load_config()
RenderLoadEnds(r) == r.ok /\ config' = r.cfg /\ pc' = "render"
RenderLoad ==
    /\ entry = "render"
    /\ pc = "load"
    /\ RenderLoadEnds(load_config(env))
    /\ UNCHANGED <<env, entry, jira, issues, fields_meta, call, net, sends, mention, log, outcome,
                   escaped, runs, handlers, inp, out>>

\* the message is built for the send operation
RenderMessage ==
    /\ entry = "render"
    /\ pc = "render"
    /\ out' = RenderedMessage(config, issues)
    /\ pc' = "rendered"
    /\ UNCHANGED <<env, entry, config, jira, issues, fields_meta, call, net, sends, mention, log,
                   outcome, escaped, runs, handlers, inp>>

NextRender ==
    \/ RenderLoad
    \/ RenderMessage

SpecRender == InitRender /\ [][NextRender]_vars

-----------------------------------------------------------------------------
(* Properties of the links in the rendered message *)

\* ENABLE_LINKS is set to something other than a word for true
LinksDisabled ==
    /\ "ENABLE_LINKS" \in DOMAIN env
    /\ env["ENABLE_LINKS"] \in {<<>>, <<"f","a","l","s","e">>, <<"0">>}
Rendered == entry = "render" /\ pc = "rendered"
NoLinkInParagraphs == \A i \in 1..Len(out.content) : ~out.content[i].link
NoLinkInRows == \A i \in 1..Len(out.elements) : ~out.elements[i].link
NoLinkInNotice == \A i \in 1..Len(out.elements) : ~out.elements[i].view_all

\* C21 as the spec states it: with the link flag off, no post paragraph
\* holds a link element, and no issue row of the card and no collapse notice
\* holds a markdown link.
C21_NoLinkWhenDisabled ==
    Rendered /\ LinksDisabled =>
        NoLinkInParagraphs /\ NoLinkInRows /\ NoLinkInNotice

\* what holds: with the flag off the paragraphs and the rows hold no link,
\* and the collapse notice holds the view-all link exactly when the query is
\* not empty, whatever the flag
C21_OnlyNoticeLinks ==
    Rendered =>
        /\ LinksDisabled => NoLinkInParagraphs /\ NoLinkInRows
        /\ \A i \in 1..Len(out.elements) :
              out.elements[i].kind = "tip" =>
                  (out.elements[i].view_all <=>
                      ("REPORT_JQL" \notin DOMAIN env \/ env["REPORT_JQL"] # <<>>))

\* C21, the failing input reached: ENABLE_LINKS=false, an interactive card of
\* two issues under SHOW_LIMIT=1: the row holds no link, the collapse notice
\* of one hidden issue holds the view-all link
C21_Witness ==
    /\ Rendered
    /\ LinksDisabled
    /\ env["ENABLE_LINKS"] = <<"f","a","l","s","e">>
    /\ ~config.enable_links
    /\ out.kind = "interactive"
    /\ Len(Entries(issues)) = 2
    /\ config.show_limit = 1
    /\ NoLinkInRows
    /\ \E i \in 1..Len(out.elements) :
          /\ out.elements[i].kind = "tip"
          /\ out.elements[i].n = 1
          /\ out.elements[i].view_all

\* with the flag on, a post paragraph and a card row of an issue with a key
\* hold a link
C21_LinkedWitness ==
    /\ Rendered
    /\ config.enable_links
    /\ out.kind = "post"
    /\ \E i \in 1..Len(out.content) : out.content[i].link

-----------------------------------------------------------------------------
(* Properties of the root level, of run_once_card and of the values that    *)
(* int() and the collecting loop accept                                     *)

\* every record in the log is at or above the level the environment sets,
\* and at INFO and below the log of run_once starts with its start record
LogHoldsAdmittedOnly ==
    entry \in {"main", "card", "scheduler", "dump"} =>
        /\ \A i \in 1..Len(log) : RecordLevel(log[i]) >= RootLevel
        /\ InRunOnce /\ log # <<>> /\ RootLevel <= RecordLevel("info:start")
              => log[1] = "info:start"

\* under WARNING a delivered report whose mention pass raised leaves the
\* warning as the only record
WarningLevelWitness ==
    /\ InRunOnce
    /\ pc = "done"
    /\ GetEnv(env, "LOG_LEVEL", sInfo) = sWarning
    /\ outcome = "delivered"
    /\ log = <<"warning:mention">>

\* under ERROR a failed fetch leaves the exception record alone
ErrorLevelWitness ==
    /\ entry = "main"
    /\ pc = "done"
    /\ GetEnv(env, "LOG_LEVEL", sInfo) = sError
    /\ outcome = "fetch_failed"
    /\ log = <<"exception:fetch">>

\* under CRITICAL nothing is recorded, not even a failed push
CriticalLevelWitness ==
    /\ entry = "main"
    /\ pc = "done"
    /\ GetEnv(env, "LOG_LEVEL", sInfo) = sCritical
    /\ outcome = "push_failed"
    /\ log = <<>>

\* run_once_card sends at most one message, the interactive card, whatever
\* the message type of the settings is, and runs no mention pass
CardEntryAlwaysCard ==
    entry = "card" =>
        /\ Len(sends) <= 1
        /\ \A i \in 1..Len(sends) : sends[i] = PrimarySend("send_interactive_card")
        /\ ~mention.ran
        /\ outcome = "delivered" => sends # <<>> /\ Logged("info:pushed")

\* run_once_card under the default message type (post) has delivered a card
CardEntryWitness ==
    /\ entry = "card"
    /\ pc = "done"
    /\ outcome = "delivered"
    /\ ExpectedOp = "send_post_content"
    /\ sends = <<PrimarySend("send_interactive_card")>>
    /\ log = <<"info:start", "info:fetched", "info:lark_resp", "info:pushed">>

\* a display name that is a list stops the collecting loop at qa_names.add:
\* the card is delivered and no reminder is sent
ListNameWitness ==
    /\ InRunOnce
    /\ pc = "done"
    /\ issues = JList(<<IssueListName>>)
    /\ mention.failed = "collect"
    /\ outcome = "delivered"
    /\ Len(sends) = 1

\* a custom field whose name is a list stops the aggregation of the card:
\* nothing is sent
ListFieldWitness ==
    /\ InRunOnce
    /\ pc = "done"
    /\ issues = JList(<<IssueListName>>)
    /\ config # NoConfig
    /\ config.qa_field_path = <<"qa">>
    /\ outcome = "push_failed"
    /\ sends = <<>>

\* int() on the literals with underscores, and what load_config makes of one
IntLiterals ==
    /\ ParseInt(<<"1","_","0">>) = [ok |-> TRUE, v |-> 10]
    /\ ParseInt(<<"1","_","0","0","0">>) = [ok |-> TRUE, v |-> 1000]
    /\ ParseInt(<<"+","1","_","0">>) = [ok |-> TRUE, v |-> 10]
    /\ ParseInt(<<" ","-","2","_","5","\n">>) = [ok |-> TRUE, v |-> 0 - 25]
    /\ ~ParseInt(<<"1","_","_","0">>).ok
    /\ ~ParseInt(<<"_","1">>).ok
    /\ ~ParseInt(<<"1","_">>).ok
    /\ ~ParseInt(<<"+">>).ok
    /\ ~ParseInt(<<>>).ok
    /\ entry = "render" /\ config # NoConfig /\ "SHOW_LIMIT" \in DOMAIN env =>
          (env["SHOW_LIMIT"] = <<"0","_","1">> => config.show_limit = 1)
-----------------------------------------------------------------------------
(* Properties of the order of strings, of str() and of send_post            *)

\* the names of a plain reminder and the identifiers of a mention stand in
\* the order of their code points
NamesInCodePointOrder ==
    \A i \in 1..Len(sends) :
        \A j, k \in 1..Len(sends[i].names) :
            j < k => StrLess(sends[i].names[j], sends[i].names[k])

\* A' and Al are named in this order in the plain reminder
QuoteOrderWitness ==
    /\ InRunOnce
    /\ pc = "done"
    /\ outcome = "delivered"
    /\ mention.names = {sQuote, sAl}
    /\ Len(sends) = 2
    /\ sends[2] = PlainSend(<<sQuote, sAl>>)

\* with a map that holds both, the identifier of A' comes before that of Al
QuoteIdsWitness ==
    /\ InRunOnce
    /\ pc = "done"
    /\ outcome = "delivered"
    /\ mention.names = {sQuote, sAl}
    /\ mention.user_ids = <<sU2, sU1>>
    /\ Len(sends) = 2
    /\ sends[2] = MentionSend(<<sU2, sU1>>)

\* in a tie the apostrophe comes before the CJK names, and of those 未指派
\* before 李雷
CjkOrderWitness ==
    /\ entry = "summary"
    /\ pc = "returned"
    /\ inp.issues = <<IssueLiLei, IssueNobody, IssueQuote>>
    /\ inp.field_path = DefaultQaPath
    /\ out.counts = <<(<<sQuote, 1>>), (<<UNASSIGNED, 1>>), (<<sLiLei, 1>>)>>

\* with QA_FIELD_PATH=created the name of an issue without a display name is
\* the text of its timestamp
StampNameWitness ==
    /\ InRunOnce
    /\ pc = "done"
    /\ outcome = "delivered"
    /\ issues = JList(<<IssueBo>>)
    /\ mention.names = {<<"2","0","2","5","-","0","1","-","0","1","T",
                          "0","0",":","0","0",":","1","0">>}

\* ord, \w, sorted and str on the characters beyond the letters and digits
CodePoints ==
    /\ Ord("'") = 39 /\ Ord("a") = 97 /\ Ord(":") = 58 /\ Ord("Z") = 90
    /\ Ord("\"") = 34 /\ Ord("+") = 43 /\ Ord("\f") = 12 /\ Ord(" ") = 32
    /\ Ord("U+672A") = 26410 /\ Ord("U+6307") = 25351 /\ Ord("U+6D3E") = 27966
    /\ \A i \in 1..Len(UNASSIGNED) : IsWordChar(UNASSIGNED[i])
    /\ ~IsWordChar("'") /\ ~IsWordChar("-") /\ ~IsWordChar("U+FF1A")
    /\ SortedStrs({<<"a","'">>, <<"a","b">>}) = <<(<<"a","'">>), (<<"a","b">>)>>
    /\ SortedStrs({<<"a",":","1">>, <<"a","Z">>}) = <<(<<"a",":","1">>), (<<"a","Z">>)>>
    /\ SortedStrs({<<"\"","q","\"">>, <<"+">>}) = <<(<<"\"","q","\"">>), (<<"+">>)>>
    /\ SortedStrs({<<"U+738B","U+82B3">>, sLiLei}) = <<sLiLei, (<<"U+738B","U+82B3">>)>>
    /\ priority_rank(<<"U+672A","P","1">>) = UnknownRank
    /\ priority_rank(<<"-","P","1">>) = 1
    /\ StrOf(Ts("tz", 20, 0)) # StrOf(Ts("naive", 10, 0))

\* str of a list: a form feed is written \x0c, the members of a dict stand in
\* their insertion order, a key that holds an apostrophe is quoted with
\* double quotes; str of a timestamp is its text
PathReprs ==
    PathReturned /\ inp.path = <<"a">> =>
        /\ inp.id = "list_ff" =>
              IsString(out.value, <<"[","'","x","\\","x","0","c","y","'","]">>)
        /\ inp.id = "list_order" =>
              IsString(out.value,
                       <<"[","'","x","'",","," ","{","'","b","'",":"," ","'","1","'",",",
                         " ","'","a","'",":"," ","'","2","'","}","]">>)
        /\ inp.id = "list_quote" =>
              IsString(out.value,
                       <<"[","'","x","'",","," ","{","\"","i","t","'","s","\"",":"," ",
                         "'","1","'","}","]">>)
        /\ inp.id = "stamps" =>
              IsString(out.value, <<"2","0","2","5","-","0","1","-","0","1","T",
                                    "0","0",":","0","0",":","2","0","+","0","0","0","0">>)
PathReprWitness ==
    /\ PathReturned
    /\ inp.id = "list_order"
    /\ inp.path = <<"a">>
    /\ out.value.t = "str"
    /\ Len(out.value.v) = 27

\* 未P0 gets no rank: its row stands after the rows of P1 and of no priority
\* with an older or no created time only by its created time
WordCharWitness ==
    /\ CardReturned
    /\ inp.issues = <<CardG, CardA, CardE>>
    /\ inp.show_limit >= 3
    /\ RowKeys = <<(<<"A">>), (<<"G">>), (<<"E">>)>>

\* send_post on its own: one send of a post that holds the joined lines, the
\* retry loop of _post with its defaults, and its result or its exception
SendPostShape ==
    entry = "lark" =>
        /\ Len(sends) <= 1
        /\ pc # "send_post" =>
              /\ sends = <<PostLinesSend>>
              /\ out.msg_type = "post"
              /\ out.title = inp.title
              /\ out.text = JoinLines(inp.lines)
              /\ call.op = "_post" /\ call.retries = DefaultRetries
        /\ pc = "done" =>
              /\ outcome = "returned" => net.lark \in 1..DefaultRetries /\ escaped = ""
              /\ outcome = "raised" => net.lark = DefaultRetries /\ escaped = "last_exc"

\* send_post with two lines returned at the second request
SendPostWitness ==
    /\ entry = "lark"
    /\ pc = "done"
    /\ outcome = "returned"
    /\ inp.lines = <<(<<"l","1">>), (<<"l","2">>)>>
    /\ out.text = <<"l","1","\n","l","2">>
    /\ net.lark = 2
    /\ call.sleeps = <<DefaultBackoff>>

-----------------------------------------------------------------------------
(* States of the failures that leave a part of the work behind *)

\* the collecting loop of the mention pass raised on a later issue: the name
\* and the e-mail of the issue before it were collected, nothing was sent
\* after the card
CollectedBeforeFailure ==
    /\ InRunOnce
    /\ pc = "done"
    /\ mention.failed = "collect"
    /\ mention.names = {sAl}
    /\ mention.emails = {sMailA}
    /\ Len(sends) = 1

\* three readable issues under show_limit 1 and a query with a lone
\* surrogate: quote_plus raises, no card is returned
SurrogateQueryRaises ==
    /\ entry = "card"
    /\ pc = "returned"
    /\ inp.issues = <<CardE, CardD, CardB>>
    /\ inp.show_limit = 1
    /\ inp.jira_base_url = sUrl
    /\ inp.jql = sLoneSurrogate
    /\ out.raised

\* the same query with nothing collapsed: the card is returned
SurrogateQueryUnused ==
    /\ entry = "card"
    /\ pc = "returned"
    /\ inp.issues = <<CardA, CardB>>
    /\ inp.show_limit = 2
    /\ inp.jira_base_url = sUrl
    /\ inp.jql = sLoneSurrogate
    /\ ~out.raised
    /\ Tips = <<>>

\* an issue whose key is a list, with a base URL: the link element holds the
\* list itself as text, the paragraph's key is its text ['K']
KeyListLinked ==
    /\ PostReturned
    /\ inp.issues = <<IssueKeyList>>
    /\ inp.top_n = 1
    /\ Len(out.content) = 3
    /\ out.content[3].link
    /\ out.content[3].link_text = JList(<<JStr(<<"K">>)>>)
    /\ out.content[3].key = <<"[","'","K","'","]">>

=============================================================================
